---- MODULE Spec2Model ----
(***************************************************************************)
(* Hockey player CRUD service: read-through Redis cache in front of the    *)
(* player/team store (backend/app/main.py, cache.py, redis_client.py,      *)
(* crud/player.py).                                                        *)
(***************************************************************************)
EXTENDS Integers, Sequences, FiniteSets, TLC

(***************************************************************************)
(* Python values.  A value is a record tagged with its Python type; "obj"  *)
(* is an instance of a class the json module has no encoder for (a         *)
(* pydantic model such as PlayerFilter); the json module encodes a tuple   *)
(* as an array and decodes every array as a list.                          *)
(***************************************************************************)
None == [t |-> "none"]
PyBool(b) == [t |-> "bool", v |-> b]
PyInt(n) == [t |-> "int", v |-> n]
PyStr(s) == [t |-> "str", v |-> s]
PyList(xs) == [t |-> "list", v |-> xs]
PyDict(items) == [t |-> "dict", v |-> items]
PyTuple(xs) == [t |-> "tuple", v |-> xs]
PyObj(fields) == [t |-> "obj", v |-> fields]

\* Python truthiness of a value (`if x:`).
Truthy(x) ==
    CASE x.t = "none" -> FALSE
      [] x.t = "bool" -> x.v
      [] x.t = "int" -> x.v # 0
      [] x.t = "str" -> Len(x.v) > 0
      [] x.t = "list" -> Len(x.v) > 0
      [] x.t = "tuple" -> Len(x.v) > 0
      [] x.t = "dict" -> Len(x.v) > 0
      [] OTHER -> TRUE

\* str(v) as an f-string renders it.
PyFormat(x) ==
    CASE x.t = "none" -> "None"
      [] x.t = "bool" -> (IF x.v THEN "True" ELSE "False")
      [] x.t = "int" -> ToString(x.v)
      [] OTHER -> x.v

(***************************************************************************)
(* Characters and strings.                                                 *)
(***************************************************************************)
\* The characters the model uses, in code-point order.
Ascii == " \"&,-0123456789:=?ABCDEFGHIJKLMNOPQRSTUVWXYZ[]_abcdefghijklmnopqrstuvwxyz{}"

Ch(s, i) == IF i >= 1 /\ i <= Len(s) THEN SubSeq(s, i, i) ELSE ""

\* Code-point rank of each character.
OrdTable ==
    [c \in {Ch(Ascii, i) : i \in 1..Len(Ascii)} |->
        CHOOSE i \in 1..Len(Ascii) : Ch(Ascii, i) = c]

Ord(c) == OrdTable[c]

RECURSIVE StrLessFrom(_, _, _)
StrLessFrom(a, b, i) ==
    IF i > Len(b) THEN FALSE
    ELSE IF i > Len(a) THEN TRUE
    ELSE IF Ch(a, i) = Ch(b, i) THEN StrLessFrom(a, b, i + 1)
    ELSE Ord(Ch(a, i)) < Ord(Ch(b, i))

\* a < b as Python compares two str objects.
StrLess(a, b) == StrLessFrom(a, b, 1)

\* True when s starts with the text p.
StartsWith(s, p) == Len(s) >= Len(p) /\ SubSeq(s, 1, Len(p)) = p

RECURSIVE JoinFrom(_, _, _)
JoinFrom(parts, sep, i) ==
    IF i > Len(parts) THEN ""
    ELSE IF i = Len(parts) THEN parts[i]
    ELSE parts[i] \o sep \o JoinFrom(parts, sep, i + 1)

\* sep.join(parts)
Join(parts, sep) == JoinFrom(parts, sep, 1)

(***************************************************************************)
(* json.dumps / json.loads on the values above.                            *)
(***************************************************************************)
RECURSIVE JsonSerializable(_)
JsonSerializable(x) ==
    CASE x.t = "obj" -> FALSE
      [] x.t = "list" -> \A i \in 1..Len(x.v) : JsonSerializable(x.v[i])
      [] x.t = "tuple" -> \A i \in 1..Len(x.v) : JsonSerializable(x.v[i])
      [] x.t = "dict" -> \A i \in 1..Len(x.v) : JsonSerializable(x.v[i][2])
      [] OTHER -> TRUE

RECURSIVE json_dumps(_)
json_dumps(x) ==
    CASE x.t = "none" -> "null"
      [] x.t = "bool" -> (IF x.v THEN "true" ELSE "false")
      [] x.t = "int" -> ToString(x.v)
      [] x.t = "str" -> "\"" \o x.v \o "\""
      [] x.t = "list" \/ x.t = "tuple" ->
            "[" \o Join([i \in 1..Len(x.v) |-> json_dumps(x.v[i])], ", ") \o "]"
      [] x.t = "dict" ->
            "{" \o Join([i \in 1..Len(x.v) |->
                           "\"" \o x.v[i][1] \o "\": " \o json_dumps(x.v[i][2])],
                        ", ") \o "}"

DigitTable == [c \in {ToString(d) : d \in 0..9} |-> CHOOSE d \in 0..9 : ToString(d) = c]
IsDigit(c) == c \in DOMAIN DigitTable
DigitVal(c) == DigitTable[c]

RECURSIVE ScanInt(_, _, _)
ScanInt(s, i, acc) ==
    IF IsDigit(Ch(s, i)) THEN ScanInt(s, i + 1, acc * 10 + DigitVal(Ch(s, i)))
    ELSE [val |-> PyInt(acc), next |-> i]

\* Index of the quote that closes the string whose body starts at i.
RECURSIVE ScanStr(_, _)
ScanStr(s, i) == IF Ch(s, i) = "\"" \/ i > Len(s) THEN i ELSE ScanStr(s, i + 1)

RECURSIVE ParseValue(_, _), ParseElems(_, _, _), ParseMembers(_, _, _)
AfterElem(s, r, acc) ==
    IF Ch(s, r.next) = ","
    THEN ParseElems(s, r.next + 2, Append(acc, r.val))
    ELSE [val |-> PyList(Append(acc, r.val)), next |-> r.next + 1]

ParseElems(s, i, acc) == AfterElem(s, ParseValue(s, i), acc)

AfterMember(s, k, r, acc) ==
    IF Ch(s, r.next) = ","
    THEN ParseMembers(s, r.next + 2, Append(acc, <<k, r.val>>))
    ELSE [val |-> PyDict(Append(acc, <<k, r.val>>)), next |-> r.next + 1]

MemberAt(s, i, j, acc) ==
    AfterMember(s, SubSeq(s, i + 1, j - 1), ParseValue(s, j + 3), acc)

ParseMembers(s, i, acc) == MemberAt(s, i, ScanStr(s, i + 1), acc)

StrAt(s, i, j) == [val |-> PyStr(SubSeq(s, i + 1, j - 1)), next |-> j + 1]

NegInt(r) == [val |-> PyInt(0 - r.val.v), next |-> r.next]

ParseValue(s, i) ==
    LET c == Ch(s, i) IN
    CASE c = "n" -> [val |-> None, next |-> i + 4]
      [] c = "t" -> [val |-> PyBool(TRUE), next |-> i + 4]
      [] c = "f" -> [val |-> PyBool(FALSE), next |-> i + 5]
      [] c = "\"" -> StrAt(s, i, ScanStr(s, i + 1))
      [] c = "[" ->
            IF Ch(s, i + 1) = "]"
            THEN [val |-> PyList(<<>>), next |-> i + 2]
            ELSE ParseElems(s, i + 1, <<>>)
      [] c = "{" ->
            IF Ch(s, i + 1) = "}"
            THEN [val |-> PyDict(<<>>), next |-> i + 2]
            ELSE ParseMembers(s, i + 1, <<>>)
      [] c = "-" -> NegInt(ScanInt(s, i + 1, 0))
      [] OTHER -> ScanInt(s, i, 0)

json_loads(s) == ParseValue(s, 1).val

(***************************************************************************)
(* CacheService key derivation.                                            *)
(***************************************************************************)
\* CacheService._generate_key
GenerateKey(namespace, identifier) == "cache:" \o namespace \o ":" \o identifier

\* sorted(params.items()): insertion of each item before the first item with
\* a greater name; params is the keyword list in call order, names distinct.
RECURSIVE InsertSorted(_, _)
InsertSorted(sorted, item) ==
    IF sorted = <<>> THEN <<item>>
    ELSE IF StrLess(item[1], Head(sorted)[1]) THEN <<item>> \o sorted
    ELSE <<Head(sorted)>> \o InsertSorted(Tail(sorted), item)

RECURSIVE SortedItemsFrom(_, _, _)
SortedItemsFrom(params, i, acc) ==
    IF i > Len(params) THEN acc
    ELSE SortedItemsFrom(params, i + 1, InsertSorted(acc, params[i]))

\* params.items() as the caller wrote them, left unsorted.
CallOrderItems(params) == params

SortedItems(params) == SortedItemsFrom(params, 1, <<>>)

KeepNotNone(items) == SelectSeq(items, LAMBDA kv : kv[2] # None)

\* The parameter names alone, joined with '&'.
ParamNames(items) == Join([i \in 1..Len(items) |-> items[i][1]], "&")

\* "&".join(f"{k}={v}" for k, v in ...)
ParamStr(items) ==
    Join([i \in 1..Len(items) |-> items[i][1] \o "=" \o PyFormat(items[i][2])], "&")

\* CacheService.generate_query_key(base, **params)
generate_query_key(base, params) ==
    LET param_str == ParamStr(KeepNotNone(SortedItems(params))) IN
    IF param_str # "" THEN base \o "?" \o param_str ELSE base

(***************************************************************************)
(* Bounds of the model.                                                    *)
(***************************************************************************)
\* Largest player id the store hands out.
MaxPlayers == 1
\* Largest value of a component statistic in a request body.
MaxStat == 1
\* Largest number of rows in the players table the query layer is run on.
MaxRows == 3
\* Largest number of connection pools RedisClient creates in a run.
MaxPools == 3

(***************************************************************************)
(* State.                                                                  *)
(***************************************************************************)
VARIABLES
    teams,        \* teams table: id -> row
    players,      \* players table: id -> row
    redis,        \* Redis keyspace: key -> stored text
    redis_up,     \* TRUE while the Redis server answers
    last,         \* the exchange in flight: the request just handled and its outcome
    keyA,         \* inputs and result of one generate_query_key call
    keyB,         \* inputs and result of a second generate_query_key call
    written,      \* key -> the value CacheService.set last stored there, while it stays
    inflight,     \* the requests running concurrently: each one's position and locals
    redis_client  \* the class attributes of RedisClient

vars == <<teams, players, redis, redis_up, last, keyA, keyB, written, inflight, redis_client>>

(***************************************************************************)
(* The store: models/team.py, models/player.py, crud/player.py.            *)
(***************************************************************************)
\* One team row (the columns the API reads).
TeamRow(id) == [id |-> id, name |-> "Bruins", city |-> "Boston"]

\* A row whose combined points leave the playoff statistics out.
PlayerRowSeasonPoints(id, d) ==
    [id |-> id,
     name |-> d.name,
     position |-> d.position,
     nationality |-> d.nationality,
     team_id |-> d.team_id,
     jersey_number |-> d.jersey_number,
     birth_date |-> d.birth_date,
     height |-> d.height,
     weight |-> d.weight,
     handedness |-> d.handedness,
     active_status |-> d.active_status,
     regular_season_games_played |-> d.regular_season_games_played,
     regular_season_goals |-> d.regular_season_goals,
     regular_season_assists |-> d.regular_season_assists,
     regular_season_points |-> d.regular_season_goals + d.regular_season_assists,
     playoff_games_played |-> d.playoff_games_played,
     playoff_goals |-> d.playoff_goals,
     playoff_assists |-> d.playoff_assists,
     playoff_points |-> d.playoff_goals + d.playoff_assists,
     games_played |-> d.regular_season_games_played + d.playoff_games_played,
     goals |-> d.regular_season_goals + d.playoff_goals,
     assists |-> d.regular_season_assists + d.playoff_assists,
     points |-> d.regular_season_goals + d.regular_season_assists]

\* create_player / update_player: the row written for a request body.
PlayerRow(id, d) ==
    [id |-> id,
     name |-> d.name,
     position |-> d.position,
     nationality |-> d.nationality,
     team_id |-> d.team_id,
     jersey_number |-> d.jersey_number,
     birth_date |-> d.birth_date,
     height |-> d.height,
     weight |-> d.weight,
     handedness |-> d.handedness,
     active_status |-> d.active_status,
     regular_season_games_played |-> d.regular_season_games_played,
     regular_season_goals |-> d.regular_season_goals,
     regular_season_assists |-> d.regular_season_assists,
     regular_season_points |-> d.regular_season_goals + d.regular_season_assists,
     playoff_games_played |-> d.playoff_games_played,
     playoff_goals |-> d.playoff_goals,
     playoff_assists |-> d.playoff_assists,
     playoff_points |-> d.playoff_goals + d.playoff_assists,
     games_played |-> d.regular_season_games_played + d.playoff_games_played,
     goals |-> d.regular_season_goals + d.playoff_goals,
     assists |-> d.regular_season_assists + d.playoff_assists,
     points |-> (d.regular_season_goals + d.playoff_goals)
                + (d.regular_season_assists + d.playoff_assists)]

\* Request bodies (PlayerCreate / PlayerUpdate) the model submits.
PlayerBody(team_id, goals, active) ==
    [name |-> "Ann", position |-> "C", nationality |-> "Canadian",
     team_id |-> team_id, jersey_number |-> 9, birth_date |-> "1995-01-01",
     height |-> "183cm", weight |-> 180, handedness |-> "L",
     active_status |-> active,
     regular_season_games_played |-> 1, regular_season_goals |-> goals,
     regular_season_assists |-> 0, playoff_games_played |-> 0,
     playoff_goals |-> 0, playoff_assists |-> 0]

PlayerBodies ==
    {PlayerBody(t, g, TRUE) : t \in {1, 2}, g \in 0..MaxStat}

\* The id the store gives the next inserted row (SQLite INTEGER PRIMARY KEY).
NewId(tbl) ==
    IF DOMAIN tbl = {} THEN 1
    ELSE (CHOOSE m \in DOMAIN tbl : \A i \in DOMAIN tbl : i <= m) + 1

\* A table with one row added or replaced, and with one row removed.
WithRow(tbl, id, row) == [i \in DOMAIN tbl \cup {id} |-> IF i = id THEN row ELSE tbl[i]]
WithoutRow(tbl, id) == [i \in DOMAIN tbl \ {id} |-> tbl[i]]

(***************************************************************************)
(* Text helpers used by the query compiler.                                *)
(***************************************************************************)
Upper == "ABCDEFGHIJKLMNOPQRSTUVWXYZ"
LowerLetters == "abcdefghijklmnopqrstuvwxyz"

LowerTable ==
    [c \in {Ch(Upper, i) : i \in 1..Len(Upper)} |->
        Ch(LowerLetters, CHOOSE i \in 1..Len(Upper) : Ch(Upper, i) = c)]

LowerCh(c) == IF c \in DOMAIN LowerTable THEN LowerTable[c] ELSE c

RECURSIVE LowerFrom(_, _)
LowerFrom(s, i) == IF i > Len(s) THEN "" ELSE LowerCh(Ch(s, i)) \o LowerFrom(s, i + 1)

\* str.lower() / SQL lower()
Lower(s) == LowerFrom(s, 1)

\* The characters str.strip() removes.
Whitespace == {" ", "\t", "\n", "\r"}

RECURSIVE FirstNonSpace(_, _)
FirstNonSpace(s, i) ==
    IF i <= Len(s) /\ Ch(s, i) \in Whitespace THEN FirstNonSpace(s, i + 1) ELSE i

RECURSIVE LastNonSpace(_, _)
LastNonSpace(s, i) ==
    IF i >= 1 /\ Ch(s, i) \in Whitespace THEN LastNonSpace(s, i - 1) ELSE i

\* A strip() that removes nothing.
StripNothing(s) == s

\* str.strip()
Strip(s) == SubSeq(s, FirstNonSpace(s, 1), LastNonSpace(s, Len(s)))

\* SQL  s LIKE pat  ('%' any run of characters, '_' any one character).
RECURSIVE LikeFrom(_, _, _, _)
LikeFrom(s, i, pat, j) ==
    IF j > Len(pat) THEN i > Len(s)
    ELSE IF Ch(pat, j) = "%"
         THEN LikeFrom(s, i, pat, j + 1) \/ (i <= Len(s) /\ LikeFrom(s, i + 1, pat, j))
    ELSE IF i <= Len(s) /\ (Ch(pat, j) = "_" \/ Ch(pat, j) = Ch(s, i))
         THEN LikeFrom(s, i + 1, pat, j + 1)
    ELSE FALSE

Like(s, pat) == LikeFrom(s, 1, pat, 1)

RECURSIVE AllDigitsFrom(_, _)
AllDigitsFrom(s, i) == i > Len(s) \/ (IsDigit(Ch(s, i)) /\ AllDigitsFrom(s, i + 1))

\* int(text) succeeds: optional sign, then decimal digits.
IsIntText(s) ==
    IF Ch(s, 1) \in {"-", "+"} THEN Len(s) > 1 /\ AllDigitsFrom(s, 2)
    ELSE Len(s) > 0 /\ AllDigitsFrom(s, 1)

\* int(text) for a text that IsIntText accepts.
IntOfText(s) ==
    IF Ch(s, 1) = "-" THEN 0 - ScanInt(s, 2, 0).val.v
    ELSE IF Ch(s, 1) = "+" THEN ScanInt(s, 2, 0).val.v
    ELSE ScanInt(s, 1, 0).val.v

(***************************************************************************)
(* crud/player.py: search, filters, sorting, pagination.                   *)
(***************************************************************************)
\* The joined Team row of a player row (query = db.query(Player).join(Team)).
TeamOf(tms, row) == tms[row.team_id]

\* A search that adds no predicate when the jersey number text is not an integer.
SearchMatchesLenient(tms, row, sp) ==
    IF sp.search = None \/ sp.search.v = "" \/ Strip(sp.search.v) = "" THEN TRUE
    ELSE LET search_term == "%" \o Lower(Strip(sp.search.v)) \o "%" IN
         CASE sp.field = "all" ->
                 \/ Like(Lower(row.name), search_term)
                 \/ Like(Lower(row.position), search_term)
                 \/ Like(Lower(row.nationality), search_term)
                 \/ Like(Lower(TeamOf(tms, row).name), search_term)
                 \/ Like(Lower(ToString(row.jersey_number)), search_term)
           [] sp.field = "name" -> Like(Lower(row.name), search_term)
           [] sp.field = "position" -> Like(Lower(row.position), search_term)
           [] sp.field = "team" -> Like(Lower(TeamOf(tms, row).name), search_term)
           [] sp.field = "nationality" -> Like(Lower(row.nationality), search_term)
           [] sp.field = "jersey_number" ->
                 IF IsIntText(Strip(sp.search.v))
                 THEN row.jersey_number = IntOfText(Strip(sp.search.v))
                 ELSE TRUE
           [] OTHER -> TRUE

\* _apply_search_filters: the predicate it adds, evaluated on one joined row.
SearchMatches(tms, row, sp) ==
    IF sp.search = None \/ sp.search.v = "" \/ Strip(sp.search.v) = "" THEN TRUE
    ELSE LET search_term == "%" \o Lower(Strip(sp.search.v)) \o "%" IN
         CASE sp.field = "all" ->
                 \/ Like(Lower(row.name), search_term)
                 \/ Like(Lower(row.position), search_term)
                 \/ Like(Lower(row.nationality), search_term)
                 \/ Like(Lower(TeamOf(tms, row).name), search_term)
                 \/ Like(Lower(ToString(row.jersey_number)), search_term)
           [] sp.field = "name" -> Like(Lower(row.name), search_term)
           [] sp.field = "position" -> Like(Lower(row.position), search_term)
           [] sp.field = "team" -> Like(Lower(TeamOf(tms, row).name), search_term)
           [] sp.field = "nationality" -> Like(Lower(row.nationality), search_term)
           [] sp.field = "jersey_number" ->
                 IF IsIntText(Strip(sp.search.v))
                 THEN row.jersey_number = IntOfText(Strip(sp.search.v))
                 ELSE row.id = -1
           [] OTHER -> TRUE

\* getattr(Player, field) / Team.name: the column a filter is compiled on.
FilterColumn(tms, row, field) ==
    CASE field = "team" -> TeamOf(tms, row).name
      [] field = "position" -> row.position
      [] field = "jersey_number" -> row.jersey_number
      [] field = "active_status" -> row.active_status
      [] field = "regular_season_games_played" -> row.regular_season_games_played
      [] field = "regular_season_goals" -> row.regular_season_goals
      [] field = "regular_season_assists" -> row.regular_season_assists
      [] field = "regular_season_points" -> row.regular_season_points
      [] field = "playoff_games_played" -> row.playoff_games_played
      [] field = "playoff_goals" -> row.playoff_goals
      [] field = "playoff_assists" -> row.playoff_assists
      [] field = "playoff_points" -> row.playoff_points
      [] field = "games_played" -> row.games_played
      [] field = "goals" -> row.goals
      [] field = "assists" -> row.assists
      [] field = "points" -> row.points

\* int(value) if isinstance(value, str) else value
NumericValue(value) ==
    CASE value.t = "str" -> IntOfText(Strip(value.v))
      [] value.t = "bool" -> (IF value.v THEN 1 ELSE 0)
      [] OTHER -> value.v

\* int(value) raises ValueError: a numeric filter whose value is a str that
\* is not the text of an integer.
FilterRaises(f) ==
    /\ f.field \in {"jersey_number", "goals", "assists", "points"}
    /\ f.value.t = "str"
    /\ ~IsIntText(Strip(f.value.v))

\* bool_value of an active_status filter
BoolValue(value) ==
    IF value.t = "str" THEN Lower(value.v) \in {"true", "1", "yes", "active"}
    ELSE Truthy(value)

\* _apply_custom_filters, one filter_item: the predicate it adds to the query.
FilterMatches(tms, row, f) ==
    LET column == FilterColumn(tms, row, f.field) IN
    CASE f.field \in {"position", "team"} ->
            (CASE f.operator = "=" -> Lower(column) = Lower(PyFormat(f.value))
               [] f.operator = "!=" -> Lower(column) # Lower(PyFormat(f.value))
               [] f.operator = "contains" ->
                     Like(Lower(column), "%" \o Lower(PyFormat(f.value)) \o "%")
               [] f.operator = "not_contains" ->
                     ~Like(Lower(column), "%" \o Lower(PyFormat(f.value)) \o "%")
               [] OTHER -> TRUE)
      [] f.field \in {"jersey_number", "goals", "assists", "points"} ->
            (CASE f.operator = "=" -> column = NumericValue(f.value)
               [] f.operator = "!=" -> column # NumericValue(f.value)
               [] f.operator = ">" -> column > NumericValue(f.value)
               [] f.operator = "<" -> column < NumericValue(f.value)
               [] f.operator = ">=" -> column >= NumericValue(f.value)
               [] f.operator = "<=" -> column <= NumericValue(f.value)
               [] OTHER -> TRUE)
      [] f.field = "active_status" ->
            (CASE f.operator = "=" -> column = BoolValue(f.value)
               [] f.operator = "!=" -> column # BoolValue(f.value)
               [] OTHER -> TRUE)
      [] OTHER -> TRUE

\* A query that keeps the rows satisfying any one of the filters.
FiltersMatchAny(tms, row, filters) ==
    \E i \in 1..Len(filters) : FilterMatches(tms, row, filters[i])

\* _apply_custom_filters: every filter's predicate is added to the query.
FiltersMatch(tms, row, filters) ==
    \A i \in 1..Len(filters) : FilterMatches(tms, row, filters[i])

\* The ids the query selects before ordering and pagination.
MatchingIds(tms, tbl, sp) ==
    {id \in DOMAIN tbl :
        /\ tbl[id].team_id \in DOMAIN tms
        /\ SearchMatches(tms, tbl[id], sp)
        /\ FiltersMatch(tms, tbl[id], sp.filters)}

\* The sort_mapping of _get_sort_column: field name -> column.
SortMapping ==
    [f \in {"name", "position", "jersey_number", "active_status",
            "regular_season_goals", "regular_season_assists", "regular_season_points",
            "regular_season_games_played", "playoff_goals", "playoff_assists",
            "playoff_points", "playoff_games_played", "games_played", "goals",
            "assists", "points"} |-> <<"players", f>>]
      @@ [f \in {"team"} |-> <<"teams", "name">>]

\* A sort_mapping whose "team" entry is the player's team_id column.
get_sort_column_team_id(sort_field) ==
    IF sort_field = "team" THEN <<"players", "team_id">>
    ELSE IF sort_field \in DOMAIN SortMapping THEN SortMapping[sort_field]
    ELSE <<"players", "name">>

\* _get_sort_column: sort_mapping.get(sort_field, Player.name)
get_sort_column(sort_field) ==
    IF sort_field \in DOMAIN SortMapping THEN SortMapping[sort_field]
    ELSE <<"players", "name">>

\* The value a joined row holds in a column.
ColumnValue(tms, row, column) ==
    IF column[1] = "teams"
    THEN (CASE column[2] = "name" -> PyStr(TeamOf(tms, row).name)
            [] column[2] = "city" -> PyStr(TeamOf(tms, row).city)
            [] OTHER -> PyInt(TeamOf(tms, row).id))
    ELSE (CASE column[2] \in {"name", "position", "nationality", "birth_date", "height",
                              "handedness"} -> PyStr(row[column[2]])
            [] column[2] = "active_status" -> PyBool(row.active_status)
            [] OTHER -> PyInt(row[column[2]]))

\* The value a row is ordered by under a sort field.
SortColumn(tms, row, sort_field) == ColumnValue(tms, row, get_sort_column(sort_field))

\* a < b in the store's ordering of one column's values.
ColumnLess(a, b) ==
    CASE a.t = "str" -> StrLess(a.v, b.v)
      [] a.t = "bool" -> (~a.v /\ b.v)
      [] OTHER -> a.v < b.v

\* A sorting that orders active_status like every other column.
MustPrecedeStored(tms, a, b, sp) ==
    IF sp.sort_order = "desc"
    THEN ColumnLess(SortColumn(tms, b, sp.sort_by), SortColumn(tms, a, sp.sort_by))
    ELSE ColumnLess(SortColumn(tms, a, sp.sort_by), SortColumn(tms, b, sp.sort_by))

\* _apply_sorting: TRUE when row a may not come after row b.
MustPrecede(tms, a, b, sp) ==
    IF sp.sort_by = "active_status"
    THEN IF sp.sort_order = "desc"
         THEN ColumnLess(PyBool(a.active_status), PyBool(b.active_status))
         ELSE ColumnLess(PyBool(b.active_status), PyBool(a.active_status))
    ELSE IF sp.sort_order = "desc"
         THEN ColumnLess(SortColumn(tms, b, sp.sort_by), SortColumn(tms, a, sp.sort_by))
         ELSE ColumnLess(SortColumn(tms, a, sp.sort_by), SortColumn(tms, b, sp.sort_by))

\* The orders in which the store may return the matching rows: ORDER BY
\* fixes the order of rows with different sort values only.
Orderings(tms, tbl, sp) ==
    LET ids == MatchingIds(tms, tbl, sp) IN
    {o \in [1..Cardinality(ids) -> ids] :
        /\ \A i, j \in DOMAIN o : i # j => o[i] # o[j]
        /\ \A i, j \in DOMAIN o : i < j => ~MustPrecede(tms, tbl[o[j]], tbl[o[i]], sp)}

\* A page that starts where it should end: offset = page * limit.
PageAfter(o, page, limit) ==
    SubSeq(o, page * limit + 1,
           IF (page + 1) * limit < Len(o) THEN (page + 1) * limit ELSE Len(o))

\* query.offset(offset).limit(limit).all() on one ordering
PageOf(o, page, limit) ==
    SubSeq(o, (page - 1) * limit + 1,
           IF page * limit < Len(o) THEN page * limit ELSE Len(o))

\* A query layer that counts the rows of the returned page.
get_players_counting_page(tms, tbl, sp) ==
    IF \E i \in 1..Len(sp.filters) : FilterRaises(sp.filters[i])
    THEN {[raised |-> TRUE, ids |-> <<>>, total_count |-> 0]}
    ELSE {[raised |-> FALSE, ids |-> PageOf(o, sp.page, sp.limit),
           total_count |-> Len(PageOf(o, sp.page, sp.limit))] :
             o \in Orderings(tms, tbl, sp)}

\* get_players_with_search: the (ids, total_count) results it may return;
\* raised when compiling a filter raises ValueError.
\* A query layer whose count is taken before the newest row was committed
\* and whose page is read after.
get_players_count_then_commit(tms, tbl, sp) ==
    IF \E i \in 1..Len(sp.filters) : FilterRaises(sp.filters[i])
    THEN {[raised |-> TRUE, ids |-> <<>>, total_count |-> 0]}
    ELSE LET before == IF DOMAIN tbl = {} THEN tbl
                       ELSE WithoutRow(tbl, NewId(tbl) - 1)
         IN {[raised |-> FALSE, ids |-> PageOf(o, sp.page, sp.limit),
              total_count |-> Cardinality(MatchingIds(tms, before, sp))] :
                o \in Orderings(tms, tbl, sp)}

get_players_with_search(tms, tbl, sp) ==
    IF \E i \in 1..Len(sp.filters) : FilterRaises(sp.filters[i])
    THEN {[raised |-> TRUE, ids |-> <<>>, total_count |-> 0]}
    ELSE LET total_count == Cardinality(MatchingIds(tms, tbl, sp)) IN
         {[raised |-> FALSE, ids |-> PageOf(o, sp.page, sp.limit),
           total_count |-> total_count] : o \in Orderings(tms, tbl, sp)}

(***************************************************************************)
(* The Redis keyspace and CacheService (cache.py).  A CacheService call    *)
(* yields a record: raised is TRUE when an exception leaves the call, the  *)
(* other fields are its return value and the keyspace it leaves.           *)
(***************************************************************************)
\* settings.redis_cache_ttl (seconds)
RedisCacheTtl == 300

EmptyRedis == [k \in {} |-> ""]

WithKey(r, key, text) == [k \in DOMAIN r \cup {key} |-> IF k = key THEN text ELSE r[k]]
WithoutKeys(r, keys) == [k \in DOMAIN r \ keys |-> r[k]]

\* Redis glob matching of KEYS: '*' any run of characters, '?' any one.
RECURSIVE GlobFrom(_, _, _, _)
GlobFrom(s, i, pat, j) ==
    IF j > Len(pat) THEN i > Len(s)
    ELSE IF Ch(pat, j) = "*"
         THEN GlobFrom(s, i, pat, j + 1) \/ (i <= Len(s) /\ GlobFrom(s, i + 1, pat, j))
    ELSE IF i <= Len(s) /\ (Ch(pat, j) = "?" \/ Ch(pat, j) = Ch(s, i))
         THEN GlobFrom(s, i + 1, pat, j + 1)
    ELSE FALSE

GlobMatch(key, pat) == GlobFrom(key, 1, pat, 1)

\* client.keys(pattern)
RedisKeys(r, pattern) == {k \in DOMAIN r : GlobMatch(k, pattern)}

\* A get that tests the decoded value, not the stored text, for truth.
CacheGetDecodedTruthy(r, up, namespace, identifier) ==
    LET key == GenerateKey(namespace, identifier) IN
    [raised |-> FALSE,
     value |-> IF ~up THEN None
               ELSE IF key \in DOMAIN r /\ Truthy(json_loads(r[key])) THEN json_loads(r[key])
               ELSE None]

\* CacheService.get
CacheGet(r, up, namespace, identifier) ==
    LET key == GenerateKey(namespace, identifier) IN
    [raised |-> FALSE,
     value |-> IF ~up THEN None
               ELSE IF key \in DOMAIN r /\ r[key] # "" THEN json_loads(r[key])
               ELSE None]

\* A set without the except clause: a connection error leaves the call.
CacheSetUnguarded(r, up, namespace, identifier, value, ttl) ==
    IF ~up THEN [raised |-> TRUE, ok |-> FALSE, redis |-> r]
    ELSE IF JsonSerializable(value) /\ (IF ttl = None THEN RedisCacheTtl ELSE ttl.v) > 0
    THEN [raised |-> FALSE, ok |-> TRUE,
          redis |-> WithKey(r, GenerateKey(namespace, identifier), json_dumps(value))]
    ELSE [raised |-> FALSE, ok |-> FALSE, redis |-> r]

\* CacheService.set (ttl None: the configured TTL; SETEX rejects ttl <= 0)
CacheSet(r, up, namespace, identifier, value, ttl) ==
    IF up /\ JsonSerializable(value) /\ (IF ttl = None THEN RedisCacheTtl ELSE ttl.v) > 0
    THEN [raised |-> FALSE, ok |-> TRUE,
          redis |-> WithKey(r, GenerateKey(namespace, identifier), json_dumps(value))]
    ELSE [raised |-> FALSE, ok |-> FALSE, redis |-> r]

\* CacheService.delete
CacheDelete(r, up, namespace, identifier) ==
    IF up
    THEN [raised |-> FALSE, ok |-> TRUE,
          redis |-> WithoutKeys(r, {GenerateKey(namespace, identifier)})]
    ELSE [raised |-> FALSE, ok |-> FALSE, redis |-> r]

\* A pattern delete that removes one matching key per call.
delete_pattern_one(r, up, pattern) ==
    IF up /\ RedisKeys(r, pattern) # {}
    THEN [raised |-> FALSE, deleted |-> 1,
          redis |-> WithoutKeys(r, {CHOOSE k \in RedisKeys(r, pattern) : TRUE})]
    ELSE [raised |-> FALSE, deleted |-> 0, redis |-> r]

\* CacheService.delete_pattern
\* A delete_pattern that takes every pattern for "*".
delete_pattern_all(r, up, pattern) ==
    IF up
    THEN [raised |-> FALSE, deleted |-> Cardinality(DOMAIN r), redis |-> EmptyRedis]
    ELSE [raised |-> FALSE, deleted |-> 0, redis |-> r]

delete_pattern(r, up, pattern) ==
    IF up
    THEN [raised |-> FALSE, deleted |-> Cardinality(RedisKeys(r, pattern)),
          redis |-> WithoutKeys(r, RedisKeys(r, pattern))]
    ELSE [raised |-> FALSE, deleted |-> 0, redis |-> r]

\* CacheService.invalidate_players: the second call runs on the keyspace
\* the first left, unless the first raised.
invalidate_players(r, up) ==
    LET first == delete_pattern(r, up, "cache:players:list:*")
        second == delete_pattern(first.redis, up, "cache:players:detail:*")
    IN IF first.raised THEN [raised |-> TRUE, redis |-> first.redis]
       ELSE [raised |-> second.raised, redis |-> second.redis]

\* An invalidation that leaves the player's detail key in place.
invalidate_listings_only(r, up, player_id) ==
    LET d == delete_pattern(r, up, "cache:players:list:*") IN
    [raised |-> d.raised, redis |-> d.redis]

\* CacheService.invalidate_player
invalidate_player(r, up, player_id) ==
    LET first == CacheDelete(r, up, "players:detail", ToString(player_id))
        second == delete_pattern(first.redis, up, "cache:players:list:*")
    IN IF first.raised THEN [raised |-> TRUE, redis |-> first.redis]
       ELSE [raised |-> second.raised, redis |-> second.redis]

(***************************************************************************)
(* Request parsing (main.py, schemas/player.py).  A query string is the    *)
(* sequence of its <<name, text>> pairs in the order the client sent them. *)
(***************************************************************************)
HasParam(query, name) == \E i \in 1..Len(query) : query[i][1] = name

ParamText(query, name) ==
    query[CHOOSE i \in 1..Len(query) :
              query[i][1] = name /\ \A j \in 1..(i - 1) : query[j][1] # name][2]

\* The arguments bound by name, with defaults.
BindNamed(query) ==
    [search |-> IF HasParam(query, "search") THEN PyStr(ParamText(query, "search")) ELSE None,
     field |-> IF HasParam(query, "field") THEN ParamText(query, "field") ELSE "all",
     page |-> IF HasParam(query, "page") THEN IntOfText(ParamText(query, "page")) ELSE 1,
     limit |-> IF HasParam(query, "limit") THEN IntOfText(ParamText(query, "limit")) ELSE 20,
     sort_by |-> IF HasParam(query, "sort_by") THEN ParamText(query, "sort_by") ELSE "name",
     sort_order |-> IF HasParam(query, "sort_order")
                    THEN ParamText(query, "sort_order") ELSE "asc",
     filters |-> IF HasParam(query, "filters")
                 THEN PyStr(ParamText(query, "filters")) ELSE None]

\* Only the leading parameter of the query string is bound.
BindLeading(query) == BindNamed(IF Len(query) > 1 THEN <<query[1]>> ELSE query)

\* The handler's arguments as FastAPI binds them from the query string.
Bind(query) == BindNamed(query)

FilterFields ==
    {"position", "team", "jersey_number", "active_status",
     "regular_season_games_played", "regular_season_goals", "regular_season_assists",
     "regular_season_points", "playoff_games_played", "playoff_goals",
     "playoff_assists", "playoff_points", "games_played", "goals", "assists", "points"}

StringFilterOperator == {"=", "!=", "contains", "not_contains"}
NumericFilterOperator == {"=", "!=", ">", "<", ">=", "<="}
BooleanFilterOperator == {"=", "!="}

\* A validator that checks the operators of the string fields only.
OperatorAllowedForStrings(field, operator) ==
    field \in {"position", "team"} => operator \in StringFilterOperator

\* PlayerFilter.validate_operator_for_field
OperatorAllowed(field, operator) ==
    CASE field \in {"position", "team"} -> operator \in StringFilterOperator
      [] field = "active_status" -> operator \in BooleanFilterOperator
      [] field \in FilterFields -> operator \in NumericFilterOperator
      [] OTHER -> TRUE

DictHas(d, k) == \E i \in 1..Len(d.v) : d.v[i][1] = k
\* d[k]: a repeated key keeps its last value.
DictGet(d, k) ==
    d.v[CHOOSE i \in 1..Len(d.v) :
            d.v[i][1] = k /\ \A j \in (i + 1)..Len(d.v) : d.v[j][1] # k][2]

\* PlayerFilter(**f) raises ValidationError.
FilterInvalid(f) ==
    \/ ~DictHas(f, "field") \/ ~DictHas(f, "operator") \/ ~DictHas(f, "value")
    \/ DictGet(f, "field").t # "str" \/ DictGet(f, "operator").t # "str"
    \/ DictGet(f, "value").t \notin {"str", "int", "bool"}
    \/ DictGet(f, "field").v \notin FilterFields
    \/ DictGet(f, "operator").v
          \notin StringFilterOperator \cup NumericFilterOperator \cup BooleanFilterOperator
    \/ ~OperatorAllowed(DictGet(f, "field").v, DictGet(f, "operator").v)

\* The PlayerFilter object built from a valid dict.
PlayerFilter(f) ==
    [field |-> DictGet(f, "field").v,
     operator |-> DictGet(f, "operator").v,
     value |-> DictGet(f, "value")]

\* json.loads(text) succeeds.  Texts are either in the layout json.dumps
\* writes or not JSON at all.
JsonValid(text) == json_dumps(json_loads(text)) = text

\* `for f in filter_data` can iterate the decoded value.
Iterable(data) == data.t \in {"list", "dict", "str"}

\* The items `for f in filter_data` yields.
IterItems(data) ==
    CASE data.t = "list" -> data.v
      [] data.t = "dict" -> [i \in 1..Len(data.v) |-> PyStr(data.v[i][1])]
      [] data.t = "str" -> [i \in 1..Len(data.v) |-> PyStr(Ch(data.v, i))]
      [] OTHER -> <<>>

\* Index of the first item PlayerFilter(**f) raises on; 0 when there is none.
FirstBadItem(items) ==
    IF \E i \in DOMAIN items : items[i].t # "dict" \/ FilterInvalid(items[i])
    THEN CHOOSE i \in DOMAIN items :
            /\ items[i].t # "dict" \/ FilterInvalid(items[i])
            /\ \A j \in 1..(i - 1) : items[j].t = "dict" /\ ~FilterInvalid(items[j])
    ELSE 0

\* get_players lines 183-193: the parsed filter list, or the error raised
\* (400 for JSONDecodeError / ValueError, 500 for an uncaught TypeError).
ParseFilters(raw) ==
    IF raw = None \/ raw.v = "" THEN [status |-> 200, filters |-> <<>>]
    ELSE IF ~JsonValid(raw.v) THEN [status |-> 400, filters |-> <<>>]
    ELSE LET filter_data == json_loads(raw.v)
             items == IterItems(filter_data)
             bad == FirstBadItem(items)
         IN IF ~Iterable(filter_data) THEN [status |-> 500, filters |-> <<>>]
            ELSE IF bad # 0
            THEN [status |-> IF items[bad].t # "dict" THEN 500 ELSE 400, filters |-> <<>>]
            ELSE [status |-> 200, filters |-> [i \in DOMAIN items |-> PlayerFilter(items[i])]]

\* PlayerSearchParams built from the bound arguments and the parsed filters.
SearchParams(b, filters) ==
    [search |-> b.search, field |-> b.field, page |-> b.page, limit |-> b.limit,
     sort_by |-> b.sort_by, sort_order |-> b.sort_order, filters |-> filters]

\* get_players lines 208-217: the identifier the listing is cached under.
ListCacheKey(b) ==
    generate_query_key("list",
        << <<"search", b.search>>, <<"field", PyStr(b.field)>>,
           <<"page", PyInt(b.page)>>, <<"limit", PyInt(b.limit)>>,
           <<"sort_by", PyStr(b.sort_by)>>, <<"sort_order", PyStr(b.sort_order)>>,
           <<"filters", b.filters>> >>)

(***************************************************************************)
(* Response bodies (main.py).                                              *)
(***************************************************************************)
format_player_response(tms, row) ==
    PyDict(<< <<"id", PyInt(row.id)>>,
              <<"name", PyStr(row.name)>>,
              <<"position", PyStr(row.position)>>,
              <<"nationality", PyStr(row.nationality)>>,
              <<"jersey_number", PyInt(row.jersey_number)>>,
              <<"birth_date", PyStr(row.birth_date)>>,
              <<"height", PyStr(row.height)>>,
              <<"weight", PyInt(row.weight)>>,
              <<"handedness", PyStr(row.handedness)>>,
              <<"active_status", PyBool(row.active_status)>>,
              <<"regular_season_goals", PyInt(row.regular_season_goals)>>,
              <<"regular_season_assists", PyInt(row.regular_season_assists)>>,
              <<"regular_season_points", PyInt(row.regular_season_points)>>,
              <<"regular_season_games_played", PyInt(row.regular_season_games_played)>>,
              <<"playoff_goals", PyInt(row.playoff_goals)>>,
              <<"playoff_assists", PyInt(row.playoff_assists)>>,
              <<"playoff_points", PyInt(row.playoff_points)>>,
              <<"playoff_games_played", PyInt(row.playoff_games_played)>>,
              <<"games_played", PyInt(row.games_played)>>,
              <<"goals", PyInt(row.goals)>>,
              <<"assists", PyInt(row.assists)>>,
              <<"points", PyInt(row.points)>>,
              <<"team", PyDict(<< <<"id", PyInt(TeamOf(tms, row).id)>>,
                                  <<"name", PyStr(TeamOf(tms, row).name)>>,
                                  <<"city", PyStr(TeamOf(tms, row).city)>> >>)>> >>)

\* math.ceil(total_count / limit) if total_count > 0 else 0
\* Whole pages only: the division rounded down.
TotalPagesFloor(total_count, limit) ==
    IF total_count > 0 THEN total_count \div limit ELSE 0

TotalPages(total_count, limit) ==
    IF total_count > 0 THEN (total_count + limit - 1) \div limit ELSE 0

\* get_players lines 233-250: the response built from one store result.
ListResponse(tms, tbl, b, filters, res) ==
    PyDict(<< <<"players", PyList([i \in 1..Len(res.ids) |->
                                      format_player_response(tms, tbl[res.ids[i]])])>>,
              <<"count", PyInt(Len(res.ids))>>,
              <<"total", PyInt(res.total_count)>>,
              <<"page", PyInt(b.page)>>,
              <<"limit", PyInt(b.limit)>>,
              <<"total_pages", PyInt(TotalPages(res.total_count, b.limit))>>,
              <<"search_query", b.search>>,
              <<"search_field", PyStr(b.field)>>,
              <<"sort_by", PyStr(b.sort_by)>>,
              <<"sort_order", PyStr(b.sort_order)>>,
              <<"filters", PyList([i \in 1..Len(filters) |-> PyObj(filters[i])])>> >>)

\* db.query(Team).order_by(Team.name).all(): the orders the store may use.
TeamOrderings(tms) ==
    {o \in [1..Cardinality(DOMAIN tms) -> DOMAIN tms] :
        /\ \A i, j \in DOMAIN o : i # j => o[i] # o[j]
        /\ \A i, j \in DOMAIN o : i < j => ~StrLess(tms[o[j]].name, tms[o[i]].name)}

\* get_teams lines 395-402
TeamsResponse(tms, o) ==
    PyList([i \in 1..Len(o) |->
               PyDict(<< <<"id", PyInt(tms[o[i]].id)>>,
                         <<"name", PyStr(tms[o[i]].name)>>,
                         <<"city", PyStr(tms[o[i]].city)>> >>)])

(***************************************************************************)
(* Request handlers (main.py).  Each yields the set of outcomes the        *)
(* request may have on a given store and keyspace: the HTTP status and     *)
(* body, the number of store read queries issued on behalf of the          *)
(* response, the keyspace and players table left behind, the cache key     *)
(* used and whether CacheService.set stored the response.                  *)
(***************************************************************************)
Outcome(status, body, db_queries, r, tbl, key, stored) ==
    [status |-> status, body |-> body, db_queries |-> db_queries,
     redis |-> r, players |-> tbl, key |-> key, stored |-> stored]

\* get_players, lines 229-261: the cache missed.
GetPlayersMiss(tms, tbl, r, up, b, filters, res) ==
    LET response == ListResponse(tms, tbl, b, filters, res)
        stored == CacheSet(r, up, "players", ListCacheKey(b), response, None)
    IN IF res.raised \/ stored.raised
       THEN Outcome(500, None, 1, r, tbl, GenerateKey("players", ListCacheKey(b)), FALSE)
       ELSE Outcome(200, response, 1, stored.redis, tbl,
                    GenerateKey("players", ListCacheKey(b)), stored.ok)

\* GET /players
get_players(query, tms, tbl, r, up) ==
    LET b == Bind(query)
        parsed == ParseFilters(b.filters)
        cache_key == ListCacheKey(b)
        cached == CacheGet(r, up, "players", cache_key)
    IN IF parsed.status # 200
       THEN {Outcome(parsed.status, None, 0, r, tbl, "", FALSE)}
       ELSE IF cached.raised
       THEN {Outcome(500, None, 0, r, tbl, GenerateKey("players", cache_key), FALSE)}
       ELSE IF Truthy(cached.value)
       THEN {Outcome(200, cached.value, 0, r, tbl,
                     GenerateKey("players", cache_key), FALSE)}
       ELSE {GetPlayersMiss(tms, tbl, r, up, b, parsed.filters, res) :
               res \in get_players_with_search(tms, tbl, SearchParams(b, parsed.filters))}

\* get_player, lines 469-479: the cache missed.
GetPlayerMiss(player_id, tms, tbl, r, up) ==
    LET key == GenerateKey("players:detail", ToString(player_id)) IN
    IF player_id \notin DOMAIN tbl THEN Outcome(404, None, 1, r, tbl, key, FALSE)
    ELSE LET response == format_player_response(tms, tbl[player_id])
             stored == CacheSet(r, up, "players:detail", ToString(player_id),
                                response, None)
         IN IF stored.raised THEN Outcome(500, None, 1, r, tbl, key, FALSE)
            ELSE Outcome(200, response, 1, stored.redis, tbl, key, stored.ok)

\* A detail handler that never looks in the cache.
get_player_uncached(player_id, tms, tbl, r, up) ==
    {GetPlayerMiss(player_id, tms, tbl, r, up)}

\* GET /players/{player_id}
get_player(player_id, tms, tbl, r, up) ==
    LET key == GenerateKey("players:detail", ToString(player_id))
        cached == CacheGet(r, up, "players:detail", ToString(player_id))
    IN IF cached.raised THEN {Outcome(500, None, 0, r, tbl, key, FALSE)}
       ELSE IF Truthy(cached.value)
       THEN {Outcome(200, cached.value, 0, r, tbl, key, FALSE)}
       ELSE {GetPlayerMiss(player_id, tms, tbl, r, up)}

\* get_teams, lines 391-407: the cache missed.
GetTeamsMiss(tms, tbl, r, up, o) ==
    LET response == TeamsResponse(tms, o)
        stored == CacheSet(r, up, "teams", "all", response, None)
    IN IF stored.raised
       THEN Outcome(500, None, 1, r, tbl, GenerateKey("teams", "all"), FALSE)
       ELSE Outcome(200, response, 1, stored.redis, tbl,
                    GenerateKey("teams", "all"), stored.ok)

\* GET /teams
get_teams(tms, tbl, r, up) ==
    LET cached == CacheGet(r, up, "teams", "all") IN
    IF cached.raised
    THEN {Outcome(500, None, 0, r, tbl, GenerateKey("teams", "all"), FALSE)}
    ELSE IF Truthy(cached.value)
    THEN {Outcome(200, cached.value, 0, r, tbl, GenerateKey("teams", "all"), FALSE)}
    ELSE {GetTeamsMiss(tms, tbl, r, up, o) : o \in TeamOrderings(tms)}

\* POST /players
create_new_player(player_data, tms, tbl, r, up) ==
    IF player_data.team_id \notin DOMAIN tms
    THEN {Outcome(404, None, 0, r, tbl, "", FALSE)}
    ELSE LET new_player == PlayerRow(NewId(tbl), player_data)
             committed == WithRow(tbl, new_player.id, new_player)
             invalidated == invalidate_players(r, up)
         IN IF invalidated.raised
            THEN {Outcome(500, None, 0, invalidated.redis, committed, "", FALSE)}
            ELSE {Outcome(201, format_player_response(tms, new_player), 0,
                          invalidated.redis, committed, "", FALSE)}

\* PUT /players/{player_id}
\* An update handler that evicts the player's cache entries before it looks
\* for the team and the player.
update_evicting_first(player_id, player_data, tms, tbl, r, up) ==
    LET invalidated == invalidate_player(r, up, player_id) IN
    IF player_data.team_id \notin DOMAIN tms \/ player_id \notin DOMAIN tbl
    THEN {Outcome(404, None, 0, invalidated.redis, tbl, "", FALSE)}
    ELSE LET updated_player == PlayerRow(player_id, player_data) IN
         {Outcome(200, format_player_response(tms, updated_player), 0,
                  invalidated.redis, WithRow(tbl, player_id, updated_player), "", FALSE)}

update_existing_player(player_id, player_data, tms, tbl, r, up) ==
    IF player_data.team_id \notin DOMAIN tms \/ player_id \notin DOMAIN tbl
    THEN {Outcome(404, None, 0, r, tbl, "", FALSE)}
    ELSE LET updated_player == PlayerRow(player_id, player_data)
             committed == WithRow(tbl, player_id, updated_player)
             invalidated == invalidate_player(r, up, player_id)
         IN IF invalidated.raised
            THEN {Outcome(500, None, 0, invalidated.redis, committed, "", FALSE)}
            ELSE {Outcome(200, format_player_response(tms, updated_player), 0,
                          invalidated.redis, committed, "", FALSE)}

\* DELETE /players/{player_id}
delete_existing_player(player_id, tms, tbl, r, up) ==
    IF player_id \notin DOMAIN tbl
    THEN {Outcome(404, None, 0, r, tbl, "", FALSE)}
    ELSE LET invalidated == invalidate_player(r, up, player_id) IN
         IF invalidated.raised
         THEN {Outcome(500, None, 0, invalidated.redis, WithoutRow(tbl, player_id),
                       "", FALSE)}
         ELSE {Outcome(204, None, 0, invalidated.redis, WithoutRow(tbl, player_id),
                       "", FALSE)}


(***************************************************************************)
(* The service as a state machine.  Handlers run one at a time: a handler  *)
(* takes a request when no response is in flight and leaves its response   *)
(* in `last`; Respond hands the response to the client.                    *)
(***************************************************************************)
\* The record of one exchange: the request, the response, the store read
\* queries issued, whether Redis answered, the cache key used, whether the
\* response was stored, and the entries the handler removed.
Event(op, arg, o, up, evicted) ==
    [op |-> op, arg |-> arg, status |-> o.status, body |-> o.body,
     db_queries |-> o.db_queries, cache_ok |-> up, key |-> o.key,
     stored |-> o.stored, evicted |-> evicted]

\* The entries of keyspace r that are gone from keyspace r2.
Evicted(r, r2) == [k \in DOMAIN r \ DOMAIN r2 |-> r[k]]

NoOutcome == Outcome(0, None, 0, EmptyRedis, <<>>, "", FALSE)

Idle == Event("idle", 0, NoOutcome, TRUE, EmptyRedis)

FilterText == "[{\"field\": \"position\", \"operator\": \"=\", \"value\": \"C\"}]"

\* A filter PlayerFilter accepts whose value int() cannot convert.
TextOnNumericFilter == "[{\"field\": \"goals\", \"operator\": \"=\", \"value\": \"x\"}]"

\* The GET /players query strings the model sends.
ListQueries ==
    { << <<"page", "1">>, <<"limit", "1">> >>,
      << <<"limit", "1">>, <<"page", "1">> >>,
      << <<"filters", FilterText>> >>,
      << <<"filters", "position=C">> >>,
      << <<"filters", TextOnNumericFilter>> >> }

\* The player ids the model names in a path.
PathIds == 1..(MaxPlayers + 1)

NoKeyCall == [called |-> FALSE]

Init ==
    /\ teams \in {[i \in {} |-> TeamRow(i)], [i \in {1} |-> TeamRow(i)]}
    /\ players = [i \in {} |-> PlayerRow(i, PlayerBody(1, 0, TRUE))]
    /\ redis = EmptyRedis
    /\ redis_up = TRUE
    /\ last = Idle
    /\ keyA = NoKeyCall
    /\ keyB = NoKeyCall
    /\ written = <<>>
    /\ inflight = <<>>
    /\ redis_client = <<>>

Unused == UNCHANGED <<teams, keyA, keyB, written, inflight, redis_client>>

GetPlayers ==
    /\ last = Idle
    /\ \E query \in ListQueries :
         \E o \in get_players(query, teams, players, redis, redis_up) :
           /\ redis' = o.redis
           /\ last' = Event("get_players", query, o, redis_up, EmptyRedis)
    /\ UNCHANGED <<players, redis_up>>
    /\ Unused

GetPlayer ==
    /\ last = Idle
    /\ \E player_id \in PathIds :
         \E o \in get_player(player_id, teams, players, redis, redis_up) :
           /\ redis' = o.redis
           /\ last' = Event("get_player", player_id, o, redis_up, EmptyRedis)
    /\ UNCHANGED <<players, redis_up>>
    /\ Unused

GetTeams ==
    /\ last = Idle
    /\ \E o \in get_teams(teams, players, redis, redis_up) :
           /\ redis' = o.redis
           /\ last' = Event("get_teams", 0, o, redis_up, EmptyRedis)
    /\ UNCHANGED <<players, redis_up>>
    /\ Unused

CreatePlayer ==
    /\ last = Idle
    /\ \E player_data \in PlayerBodies :
         \E o \in create_new_player(player_data, teams, players, redis, redis_up) :
           /\ player_data.team_id \in DOMAIN teams => NewId(players) <= MaxPlayers
           /\ redis' = o.redis
           /\ players' = o.players
           /\ last' = Event("create_new_player", player_data, o, redis_up,
                            Evicted(redis, o.redis))
    /\ UNCHANGED redis_up
    /\ Unused

UpdatePlayer ==
    /\ last = Idle
    /\ \E player_id \in PathIds, player_data \in PlayerBodies :
         \E o \in update_existing_player(player_id, player_data, teams, players,
                                         redis, redis_up) :
           /\ redis' = o.redis
           /\ players' = o.players
           /\ last' = Event("update_existing_player", <<player_id, player_data>>, o,
                            redis_up, Evicted(redis, o.redis))
    /\ UNCHANGED redis_up
    /\ Unused

DeletePlayer ==
    /\ last = Idle
    /\ \E player_id \in PathIds :
         \E o \in delete_existing_player(player_id, teams, players, redis, redis_up) :
           /\ redis' = o.redis
           /\ players' = o.players
           /\ last' = Event("delete_existing_player", player_id, o, redis_up,
                            Evicted(redis, o.redis))
    /\ UNCHANGED redis_up
    /\ Unused

\* The response leaves the server.
Respond ==
    /\ last # Idle
    /\ last' = Idle
    /\ UNCHANGED <<players, redis, redis_up>>
    /\ Unused

\* A key's TTL runs out.
Expire ==
    /\ last = Idle
    /\ \E k \in DOMAIN redis : redis' = WithoutKeys(redis, {k})
    /\ UNCHANGED <<players, redis_up, last>>
    /\ Unused

\* The Redis server stops answering; it keeps its keys.
RedisDown ==
    /\ last = Idle
    /\ redis_up
    /\ redis_up' = FALSE
    /\ UNCHANGED <<players, redis, last>>
    /\ Unused

\* The Redis server answers again.
RedisRecover ==
    /\ last = Idle
    /\ ~redis_up
    /\ redis_up' = TRUE
    /\ UNCHANGED <<players, redis, last>>
    /\ Unused

Next ==
    \/ GetPlayers
    \/ GetPlayer
    \/ GetTeams
    \/ CreatePlayer
    \/ UpdatePlayer
    \/ DeletePlayer
    \/ Respond
    \/ Expire
    \/ RedisDown
    \/ RedisRecover

Spec == Init /\ [][Next]_vars

(***************************************************************************)
(* Properties of the service.                                              *)
(***************************************************************************)
ReadOps == {"get_players", "get_player", "get_teams"}
WriteOps == {"create_new_player", "update_existing_player", "delete_existing_player"}

Succeeded(e) == e.status \in {200, 201, 204}

\* The outcomes the request of exchange e would have on the given state.
Handle(e, tms, tbl, r, up) ==
    CASE e.op = "get_players" -> get_players(e.arg, tms, tbl, r, up)
      [] e.op = "get_player" -> get_player(e.arg, tms, tbl, r, up)
      [] e.op = "get_teams" -> get_teams(tms, tbl, r, up)
      [] e.op = "create_new_player" -> create_new_player(e.arg, tms, tbl, r, up)
      [] e.op = "update_existing_player" ->
            update_existing_player(e.arg[1], e.arg[2], tms, tbl, r, up)
      [] e.op = "delete_existing_player" ->
            delete_existing_player(e.arg, tms, tbl, r, up)

\* The listing responses the store's present contents give for a query.
FreshListings(query) ==
    LET b == Bind(query)
        parsed == ParseFilters(b.filters)
    IN {ListResponse(teams, players, b, parsed.filters, res) :
          res \in get_players_with_search(teams, players, SearchParams(b, parsed.filters))}

\* The same parameters in every order a client may send them.
Reorderings(query) ==
    {[i \in 1..Len(query) |-> query[p[i]]] : p \in Permutations(1..Len(query))}

DetailKey(player_id) == GenerateKey("players:detail", ToString(player_id))

\* C1: once a create, update or delete has succeeded with Redis answering,
\* a GET /players that follows it, whatever its parameters, returns a listing
\* computed from the store as the write left it.
C1_ListingReflectsWrite ==
    (last.op \in WriteOps /\ Succeeded(last) /\ last.cache_ok) =>
        \A query \in ListQueries :
          \A o \in get_players(query, teams, players, redis, redis_up) :
            o.status = 200 => o.body \in FreshListings(query)

\* C2: once an update or delete of player id has succeeded with Redis
\* answering, the GET /players/{id} that follows returns the updated row
\* after an update and 404 after a delete.
C2_DetailReflectsWrite ==
    /\ (last.op = "update_existing_player" /\ last.status = 200 /\ last.cache_ok) =>
          \A o \in get_player(last.arg[1], teams, players, redis, redis_up) :
            /\ o.status = 200
            /\ o.body = format_player_response(teams, players[last.arg[1]])
            /\ o.body = last.body
    /\ (last.op = "delete_existing_player" /\ last.status = 204 /\ last.cache_ok) =>
          \A o \in get_player(last.arg, teams, players, redis, redis_up) :
            o.status = 404

\* An update has succeeded and removed a cached detail response that
\* differs from the updated row.
C2_Witness ==
    /\ last.op = "update_existing_player" /\ last.status = 200 /\ last.cache_ok
    /\ DetailKey(last.arg[1]) \in DOMAIN last.evicted
    /\ json_loads(last.evicted[DetailKey(last.arg[1])]) # last.body

\* C3: when a GET /players has missed and stored its response, the same
\* parameters sent in any other order use the same key and are answered
\* from the cache with the same body and no store query.
C3_ReorderedQueryHits ==
    (last.op = "get_players" /\ last.status = 200 /\ last.stored) =>
        \A query \in Reorderings(last.arg) :
          \A o \in get_players(query, teams, players, redis, redis_up) :
            /\ o.key = last.key
            /\ o.status = 200
            /\ o.db_queries = 0
            /\ o.body = last.body

\* A listing was stored by a request whose parameters can be reordered.
C3_Witness ==
    /\ last.op = "get_players" /\ last.status = 200 /\ last.stored
    /\ last.db_queries = 1
    /\ \E query \in Reorderings(last.arg) : query # last.arg

\* C4: a read request that missed and got its result from the store, with
\* Redis answering, has stored the response under its key, and the same
\* request repeated at once is answered from the cache.
C4_MissIsStored ==
    (last.op \in ReadOps /\ last.status = 200 /\ last.db_queries > 0 /\ last.cache_ok) =>
        /\ last.stored
        /\ last.key \in DOMAIN redis
        /\ \A o \in Handle(last, teams, players, redis, redis_up) :
             o.status = 200 /\ o.db_queries = 0 /\ o.body = last.body

\* C7: every key GET /players uses starts with cache:players:list: and
\* matches the pattern cache:players:list:* the write path deletes, and
\* every key GET /players/{id} uses is cache:players:detail:<id>.
C7_KeyLayout ==
    /\ (last.op = "get_players" /\ last.key # "") =>
          /\ StartsWith(last.key, "cache:players:list:")
          /\ GlobMatch(last.key, "cache:players:list:*")
    /\ last.op = "get_player" => last.key = "cache:players:detail:" \o ToString(last.arg)

\* The namespace and identifier pairs the handlers use.
ServiceKeys ==
    {<<"players", ListCacheKey(Bind(query))>> : query \in ListQueries}
        \cup {<<"players:detail", ToString(i)>> : i \in PathIds}
        \cup {<<"teams", "all">>}

\* With Redis not answering, each CacheService operation returns its
\* failure value and raises nothing.
FaultValues(r) ==
    /\ \A k \in ServiceKeys :
         /\ CacheGet(r, FALSE, k[1], k[2]) = [raised |-> FALSE, value |-> None]
         /\ CacheSet(r, FALSE, k[1], k[2], PyInt(1), None)
               = [raised |-> FALSE, ok |-> FALSE, redis |-> r]
         /\ CacheDelete(r, FALSE, k[1], k[2])
               = [raised |-> FALSE, ok |-> FALSE, redis |-> r]
    /\ \A pattern \in {"cache:players:list:*", "cache:players:detail:*"} :
         delete_pattern(r, FALSE, pattern)
               = [raised |-> FALSE, deleted |-> 0, redis |-> r]

C8_Step ==
    (last'.op \in ReadOps \cup WriteOps /\ ~last'.cache_ok) =>
        /\ FaultValues(redis)
        /\ redis' = redis
        /\ \E o \in Handle(last', teams, players, EmptyRedis, TRUE) :
             /\ o.status = last'.status
             /\ o.body = last'.body
             /\ o.db_queries = last'.db_queries
             /\ o.players = players'

\* C8: while Redis does not answer, the CacheService operations return
\* None, False, False and 0 without raising; a read request gets the
\* response, and issues the store queries, it would get on an empty and
\* answering cache; a write request changes the store and answers as it
\* would with invalidation working.
C8_FaultIsMiss == [][C8_Step]_vars

\* A read was answered from the store while Redis, holding an entry under
\* the request's key, did not answer.
C8_Witness ==
    /\ last.op \in ReadOps /\ ~last.cache_ok
    /\ last.status = 200 /\ last.db_queries = 1
    /\ last.key \in DOMAIN redis

(***************************************************************************)
(* CacheService.generate_query_key called twice.                           *)
(***************************************************************************)
KeyBases == {"list", "top"}
KeyNames == {"limit", "page"}
KeyValues == {None, PyInt(1), PyInt(2), PyStr("1"), PyStr("1&page=1")}

\* Keyword arguments: distinct names in call order, each with a value.
KeyParams ==
    {<<>>}
      \cup {<< <<n, v>> >> : n \in KeyNames, v \in KeyValues}
      \cup {<< <<n[1], v1>>, <<n[2], v2>> >> :
              n \in {m \in KeyNames \X KeyNames : m[1] # m[2]},
              v1 \in KeyValues, v2 \in KeyValues}

KeyCall(base, params) ==
    [called |-> TRUE, base |-> base, params |-> params,
     key |-> generate_query_key(base, params)]

InitKey ==
    /\ teams = <<>>
    /\ players = <<>>
    /\ redis = EmptyRedis
    /\ redis_up = TRUE
    /\ last = Idle
    /\ keyA = NoKeyCall
    /\ keyB = NoKeyCall
    /\ written = <<>>
    /\ inflight = <<>>
    /\ redis_client = <<>>

UnusedByKey == UNCHANGED <<teams, players, redis, redis_up, last, written, inflight, redis_client>>

FirstKeyCall ==
    /\ ~keyA.called
    /\ \E base \in KeyBases, params \in KeyParams : keyA' = KeyCall(base, params)
    /\ UNCHANGED keyB
    /\ UnusedByKey

SecondKeyCall ==
    /\ keyA.called /\ ~keyB.called
    /\ \E base \in KeyBases, params \in KeyParams : keyB' = KeyCall(base, params)
    /\ UNCHANGED keyA
    /\ UnusedByKey

NextKey ==
    \/ FirstKeyCall
    \/ SecondKeyCall

SpecKey == InitKey /\ [][NextKey]_vars

(***************************************************************************)
(* Properties of generate_query_key.                                       *)
(***************************************************************************)
\* The (name, value) pairs whose value is not None.
Effective(params) == {params[i] : i \in {j \in 1..Len(params) : params[j][2] # None}}

\* The (name, text) pairs a key renders.
Rendered(params) == {<<p[1], PyFormat(p[2])>> : p \in Effective(params)}

HasAmpersand(text) == \E i \in 1..Len(text) : Ch(text, i) = "&"

BothCalled == keyA.called /\ keyB.called

\* C5: two calls with the same base and the same set of non-None
\* (name, value) pairs give the same key, whatever the keyword order and
\* whatever None-valued parameters are added; with no non-None parameter
\* the key is the base.
C5_KeyOfEffectiveSet ==
    /\ (BothCalled /\ keyA.base = keyB.base
            /\ Effective(keyA.params) = Effective(keyB.params)) => keyA.key = keyB.key
    /\ (keyA.called /\ Effective(keyA.params) = {}) => keyA.key = keyA.base

\* Two calls with the same two parameters in opposite keyword order.
C5_Witness ==
    /\ BothCalled /\ keyA.base = keyB.base
    /\ Len(keyA.params) = 2 /\ Len(keyB.params) = 2
    /\ keyA.params[1] = keyB.params[2] /\ keyA.params[2] = keyB.params[1]
    /\ Cardinality(Effective(keyA.params)) = 2
    /\ keyA.key = keyB.key

\* C6: two calls with the same base whose parameter maps differ in a
\* non-None value give different keys.
C6_DistinctParamsDistinctKeys ==
    (BothCalled /\ keyA.base = keyB.base
        /\ Effective(keyA.params) # Effective(keyB.params)) => keyA.key # keyB.key

\* C6 (amended): two calls with the same base, no rendered value holding
\* '&', give different keys when they differ in the names bound to a
\* non-None value or in the rendered text of such a value.
C6_DistinctRenderingsDistinctKeys ==
    (/\ BothCalled
     /\ keyA.base = keyB.base
     /\ \A p \in Rendered(keyA.params) \cup Rendered(keyB.params) : ~HasAmpersand(p[2])
     /\ Rendered(keyA.params) # Rendered(keyB.params)) => keyA.key # keyB.key

\* Two calls that bind the same name to values rendered differently have
\* been given different keys.
C6_Witness ==
    /\ BothCalled /\ keyA.base = keyB.base
    /\ keyA.params = << <<"limit", PyInt(1)>>, <<"page", PyInt(1)>> >>
    /\ keyB.params = << <<"limit", PyInt(1)>>, <<"page", PyInt(2)>> >>
    /\ keyA.key # keyB.key

(***************************************************************************)
(* CacheService called directly, one call at a time, against a Redis that  *)
(* may stop answering and whose keys may expire.                           *)
(***************************************************************************)
\* The record of one CacheService call: its arguments, whether Redis
\* answered, the key addressed, the value returned and the entries removed.
Call(op, arg, up, key, result, evicted) ==
    [op |-> op, arg |-> arg, cache_ok |-> up, key |-> key, result |-> result,
     evicted |-> evicted]

NoCall == Call("none", 0, TRUE, "", None, EmptyRedis)

\* The namespace and identifier pairs the calls address.
CacheIds ==
    {<<"players", "list:top">>, <<"players", "list?page=1">>, <<"teams", "all">>}
        \cup {<<"players:detail", ToString(i)>> : i \in PathIds}

\* The values handed to CacheService.set.
CacheValues ==
    {None, PyBool(FALSE), PyInt(0), PyStr(""), PyList(<<>>), PyDict(<<>>),
     PyTuple(<<PyInt(1), PyInt(2)>>),
     PyDict(<< <<"a", PyList(<<None, PyBool(TRUE), PyInt(0 - 1), PyStr("x")>>)>> >>),
     PyObj(<<>>)}

\* The set calls the model makes: every value under cache:teams:all, one
\* value under each other key, and one call with a zero TTL.
SetCalls ==
    {[namespace |-> "teams", identifier |-> "all", value |-> v, ttl |-> None] :
        v \in CacheValues}
      \cup {[namespace |-> k[1], identifier |-> k[2], value |-> PyInt(1), ttl |-> None] :
              k \in CacheIds \ {<<"teams", "all">>}}
      \cup {[namespace |-> "teams", identifier |-> "all", value |-> PyInt(1),
             ttl |-> PyInt(0)]}

Patterns == {"cache:players:list:*", "cache:players:detail:*", "cache:*"}

\* `written` after a step that leaves keyspace r2 and stored value under key
\* (key "" when the step stored nothing).
Written(r2, key, value) ==
    [k \in DOMAIN r2 |-> IF k = key THEN value ELSE written[k]]

InitCache ==
    /\ teams = <<>>
    /\ players = <<>>
    /\ redis = EmptyRedis
    /\ redis_up = TRUE
    /\ last = NoCall
    /\ keyA = NoKeyCall
    /\ keyB = NoKeyCall
    /\ written = <<>>
    /\ inflight = <<>>
    /\ redis_client = <<>>

UnusedByCache == UNCHANGED <<teams, players, keyA, keyB, inflight, redis_client>>

SetCall ==
    /\ \E c \in SetCalls :
         LET res == CacheSet(redis, redis_up, c.namespace, c.identifier, c.value, c.ttl)
             key == GenerateKey(c.namespace, c.identifier)
         IN /\ ~res.raised
            /\ redis' = res.redis
            /\ written' = Written(res.redis, IF res.ok THEN key ELSE "", c.value)
            /\ last' = Call("set", c, redis_up, key, res.ok, EmptyRedis)
    /\ UNCHANGED redis_up
    /\ UnusedByCache

GetCall ==
    /\ \E k \in CacheIds :
         LET res == CacheGet(redis, redis_up, k[1], k[2]) IN
            /\ ~res.raised
            /\ last' = Call("get", k, redis_up, GenerateKey(k[1], k[2]), res.value,
                            EmptyRedis)
    /\ UNCHANGED <<redis, redis_up, written>>
    /\ UnusedByCache

DeleteCall ==
    /\ \E k \in CacheIds :
         LET res == CacheDelete(redis, redis_up, k[1], k[2]) IN
            /\ ~res.raised
            /\ redis' = res.redis
            /\ written' = Written(res.redis, "", None)
            /\ last' = Call("delete", k, redis_up, GenerateKey(k[1], k[2]), res.ok,
                            Evicted(redis, res.redis))
    /\ UNCHANGED redis_up
    /\ UnusedByCache

DeletePatternCall ==
    /\ \E pattern \in Patterns :
         LET res == delete_pattern(redis, redis_up, pattern) IN
            /\ ~res.raised
            /\ redis' = res.redis
            /\ written' = Written(res.redis, "", None)
            /\ last' = Call("delete_pattern", pattern, redis_up, "", res.deleted,
                            Evicted(redis, res.redis))
    /\ UNCHANGED redis_up
    /\ UnusedByCache

InvalidatePlayersCall ==
    /\ LET res == invalidate_players(redis, redis_up) IN
            /\ ~res.raised
            /\ redis' = res.redis
            /\ written' = Written(res.redis, "", None)
            /\ last' = Call("invalidate_players", 0, redis_up, "", None,
                            Evicted(redis, res.redis))
    /\ UNCHANGED redis_up
    /\ UnusedByCache

InvalidatePlayerCall ==
    /\ \E player_id \in PathIds :
         LET res == invalidate_player(redis, redis_up, player_id) IN
            /\ ~res.raised
            /\ redis' = res.redis
            /\ written' = Written(res.redis, "", None)
            /\ last' = Call("invalidate_player", player_id, redis_up, "", None,
                            Evicted(redis, res.redis))
    /\ UNCHANGED redis_up
    /\ UnusedByCache

\* A key's TTL runs out.
CacheExpire ==
    /\ \E k \in DOMAIN redis :
         /\ redis' = WithoutKeys(redis, {k})
         /\ written' = Written(WithoutKeys(redis, {k}), "", None)
         /\ last' = Call("expire", k, redis_up, k, None, EmptyRedis)
    /\ UNCHANGED redis_up
    /\ UnusedByCache

\* The Redis server stops answering; it keeps its keys.
CacheDown ==
    /\ redis_up
    /\ redis_up' = FALSE
    /\ last' = Call("down", 0, FALSE, "", None, EmptyRedis)
    /\ UNCHANGED <<redis, written>>
    /\ UnusedByCache

\* The Redis server answers again.
CacheRecover ==
    /\ ~redis_up
    /\ redis_up' = TRUE
    /\ last' = Call("recover", 0, TRUE, "", None, EmptyRedis)
    /\ UNCHANGED <<redis, written>>
    /\ UnusedByCache

NextCache ==
    \/ SetCall
    \/ GetCall
    \/ DeleteCall
    \/ DeletePatternCall
    \/ InvalidatePlayersCall
    \/ InvalidatePlayerCall
    \/ CacheExpire
    \/ CacheDown
    \/ CacheRecover

SpecCache == InitCache /\ [][NextCache]_vars

(***************************************************************************)
(* Properties of CacheService.                                             *)
(***************************************************************************)
\* C9: a value stored by CacheService.set and still in place is what
\* CacheService.get returns, for every JSON-serialisable value.
C9_RoundTrip ==
    (last.op = "get" /\ last.cache_ok /\ last.key \in DOMAIN written) =>
        last.result = written[last.key]

\* Values built from None, bool, int, str, list and str-keyed dict alone.
RECURSIVE JsonNative(_)
JsonNative(x) ==
    CASE x.t \in {"none", "bool", "int", "str"} -> TRUE
      [] x.t = "list" -> \A i \in 1..Len(x.v) : JsonNative(x.v[i])
      [] x.t = "dict" -> \A i \in 1..Len(x.v) : JsonNative(x.v[i][2])
      [] OTHER -> FALSE

\* C9 (amended): CacheService.set of a value built from None, bool, int,
\* str, list and str-keyed dict, with Redis answering and the default TTL,
\* returns True and stores it; CacheService.get returns a value equal to
\* the one stored while it is in place, falsy values included.
C9_RoundTripNative ==
    /\ (last.op = "set" /\ last.cache_ok /\ JsonNative(last.arg.value)
            /\ last.arg.ttl = None) =>
          /\ last.result = TRUE
          /\ last.key \in DOMAIN redis
          /\ written[last.key] = last.arg.value
          /\ CacheGet(redis, redis_up, last.arg.namespace, last.arg.identifier).value
                = last.arg.value
    /\ (last.op = "get" /\ last.cache_ok /\ last.key \in DOMAIN written
            /\ JsonNative(written[last.key])) =>
          last.result = written[last.key]

\* CacheService.get has returned the empty list stored before it.
C9_Witness ==
    /\ last.op = "get" /\ last.cache_ok /\ last.key \in DOMAIN written
    /\ written[last.key] = PyList(<<>>)
    /\ last.result = PyList(<<>>)

\* C10: invalidate_player(id) called again right after itself leaves the
\* keyspace as the first call left it, and so does invalidate_players.
C10_InvalidateIdempotent ==
    /\ last.op = "invalidate_player" =>
          invalidate_player(redis, redis_up, last.arg).redis = redis
    /\ last.op = "invalidate_players" =>
          invalidate_players(redis, redis_up).redis = redis

\* invalidate_players has removed several entries and left others.
C10_Witness ==
    /\ last.op = "invalidate_players" /\ last.cache_ok
    /\ Cardinality(DOMAIN last.evicted) >= 2
    /\ redis # EmptyRedis

(***************************************************************************)
(* The query layer (crud/player.py) and filter validation                  *)
(* (schemas/player.py) applied to a players table of catalogued rows.      *)
(***************************************************************************)
\* The record of one application: the function, its argument, its result.
Applied(op, arg, result) == [op |-> op, arg |-> arg, result |-> result]

QueryTeams ==
    <<[id |-> 1, name |-> "Bruins", city |-> "Boston"],
      [id |-> 2, name |-> "Oilers", city |-> "Edmonton"]>>

\* A request body with the columns the queries look at.
QueryBody(name, position, nationality, team_id, jersey, active, rs_goals, rs_assists, po_goals) ==
    [name |-> name, position |-> position, nationality |-> nationality,
     team_id |-> team_id, jersey_number |-> jersey, birth_date |-> "1995-01-01",
     height |-> "183cm", weight |-> 180, handedness |-> "L",
     active_status |-> active,
     regular_season_games_played |-> 2, regular_season_goals |-> rs_goals,
     regular_season_assists |-> rs_assists, playoff_games_played |-> 1,
     playoff_goals |-> po_goals, playoff_assists |-> 0]

\* The rows a table is filled from; row i has id i.
QueryRows ==
    <<PlayerRow(1, QueryBody("Ann", "C", "Canadian", 1, 9, TRUE, 1, 0, 0)),
      PlayerRow(2, QueryBody("Bob", "LW", "Swedish", 2, 19, FALSE, 0, 2, 1)),
      PlayerRow(3, QueryBody("Cy", "C", "Finnish", 2, 91, TRUE, 0, 0, 0)),
      PlayerRow(4, QueryBody("ann lee", "D", "American", 1, 9, FALSE, 2, 1, 0)),
      PlayerRow(5, QueryBody("Dan", "G", "Canadian", 1, 30, TRUE, 0, 0, 2))>>

\* PlayerFilter(field=..., operator=..., value=...)
MakeFilter(field, operator, value) ==
    PlayerFilter(PyDict(<< <<"field", PyStr(field)>>, <<"operator", PyStr(operator)>>,
                           <<"value", value>> >>))

\* The filter lists the queries carry.
FilterLists ==
    LET position_c == MakeFilter("position", "=", PyStr("c"))
        team_oil == MakeFilter("team", "contains", PyStr("OIL"))
        team_not_oil == MakeFilter("team", "not_contains", PyStr("oil"))
        goals_pos == MakeFilter("goals", ">", PyInt(0))
        goals_text == MakeFilter("goals", "<=", PyStr(" 1 "))
        season_goals == MakeFilter("regular_season_goals", ">", PyInt(0))
        playoff_goals == MakeFilter("playoff_goals", "=", PyInt(1))
        active == MakeFilter("active_status", "=", PyBool(TRUE))
        retired == MakeFilter("active_status", "!=", PyStr("Active"))
        jersey_bad == MakeFilter("jersey_number", "<", PyStr("x"))
    IN {<<>>, <<position_c>>, <<team_oil>>, <<team_not_oil>>, <<goals_pos>>,
        <<goals_text>>, <<season_goals>>, <<playoff_goals>>, <<active>>, <<retired>>,
        <<jersey_bad>>, <<position_c, goals_pos>>, <<goals_pos, position_c>>,
        <<active, team_not_oil>>, <<position_c, jersey_bad>>,
        <<active, goals_text, position_c>>}

SearchFields == {"all", "name", "position", "team", "nationality", "jersey_number"}

SearchTexts ==
    {None, PyStr(""), PyStr("  "), PyStr(" \t"), PyStr("an"), PyStr(" AN "),
     PyStr("_"), PyStr("b_b"), PyStr("9"), PyStr(" 9 "), PyStr("x9"), PyStr("oil"),
     PyStr("09")}

SortFields == DOMAIN SortMapping

Params(search, field, page, limit, sort_by, sort_order, filters) ==
    [search |-> search, field |-> field, page |-> page, limit |-> limit,
     sort_by |-> sort_by, sort_order |-> sort_order, filters |-> filters]

\* The PlayerSearchParams the queries are run with: every search text on
\* every search field, every filter list on several pages, every sort
\* field in both directions.
QueryParams ==
    {Params(search, field, 1, 20, "name", "asc", <<>>) :
        search \in SearchTexts, field \in SearchFields}
      \cup {Params(search, "jersey_number", 1, 20, "name", "asc", filters) :
              search \in {None, PyStr("  ")}, filters \in FilterLists}
      \cup {Params(None, "all", page, limit, "name", "asc", filters) :
              page \in 1..3, limit \in 1..2, filters \in FilterLists}
      \cup {Params(None, "all", page, 2, sort_by, sort_order, <<>>) :
              page \in 1..2, sort_by \in SortFields, sort_order \in {"asc", "desc"}}
      \cup {Params(None, "all", 1, 20, sort_by, sort_order, <<>>) :
              sort_by \in SortFields, sort_order \in {"asc", "desc"}}

\* The operators a client may name, one of them outside FilterOperatorType.
FilterOperators ==
    StringFilterOperator \cup NumericFilterOperator \cup BooleanFilterOperator \cup {"~"}

InitQuery ==
    /\ teams = QueryTeams
    /\ players = <<>>
    /\ redis = EmptyRedis
    /\ redis_up = TRUE
    /\ last = Idle
    /\ keyA = NoKeyCall
    /\ keyB = NoKeyCall
    /\ written = <<>>
    /\ inflight = <<>>
    /\ redis_client = <<>>

UnusedByQuery == UNCHANGED <<teams, redis, redis_up, keyA, keyB, written, inflight, redis_client>>

\* A catalogued row is added to the table.
InsertRow ==
    /\ last = Idle
    /\ \E i \in 1..MaxRows :
         /\ i \notin DOMAIN players
         /\ players' = WithRow(players, i, QueryRows[i])
    /\ UNCHANGED last
    /\ UnusedByQuery

\* A row is removed from the table.
RemoveRow ==
    /\ last = Idle
    /\ \E i \in DOMAIN players : players' = WithoutRow(players, i)
    /\ UNCHANGED last
    /\ UnusedByQuery

\* get_players_with_search(db, search_params)
QueryPlayers ==
    /\ last = Idle
    /\ \E sp \in QueryParams :
         \E res \in get_players_with_search(teams, players, sp) :
           last' = Applied("get_players_with_search", sp, res)
    /\ UNCHANGED players
    /\ UnusedByQuery

\* PlayerFilter(**f)
BuildFilter ==
    /\ last = Idle
    /\ \E field \in FilterFields, operator \in FilterOperators,
          value \in {PyStr("C"), PyInt(1), PyBool(TRUE)} :
         LET f == PyDict(<< <<"field", PyStr(field)>>, <<"operator", PyStr(operator)>>,
                            <<"value", value>> >>)
         IN last' = Applied("PlayerFilter", f,
                            IF FilterInvalid(f) THEN [raised |-> TRUE]
                            ELSE [raised |-> FALSE, filter |-> PlayerFilter(f)])
    /\ UNCHANGED players
    /\ UnusedByQuery

\* _get_sort_column(sort_field)
SortColumnCall ==
    /\ last = Idle
    /\ \E sort_field \in SortFields \cup {"", "height", "team_id"} :
         last' = Applied("_get_sort_column", sort_field, get_sort_column(sort_field))
    /\ UNCHANGED players
    /\ UnusedByQuery

\* get_players, lines 229-250: the store's result made into the response.
BuildResponse ==
    /\ last = Idle
    /\ \E sp \in QueryParams :
         \E res \in get_players_with_search(teams, players, sp) :
           /\ ~res.raised
           /\ last' = Applied("get_players", sp,
                              ListResponse(teams, players, sp, sp.filters, res))
    /\ UNCHANGED players
    /\ UnusedByQuery

NextQuery ==
    \/ BuildResponse
    \/ InsertRow
    \/ RemoveRow
    \/ QueryPlayers
    \/ BuildFilter
    \/ SortColumnCall

SpecQuery == InitQuery /\ [][NextQuery]_vars

(***************************************************************************)
(* Properties of filter validation and of the query layer.                 *)
(***************************************************************************)
QueryDone == last # Idle /\ last.op = "get_players_with_search"

\* C11: constructing a PlayerFilter succeeds exactly when the operator is
\* in the set allowed for the class of its field: the four string operators
\* for position and team, the two boolean operators for active_status, the
\* six numeric operators for the thirteen other fields.  Otherwise a
\* validation error is raised and no filter object is produced.
C11_OperatorMatchesFieldClass ==
    (last # Idle /\ last.op = "PlayerFilter") =>
        LET field == DictGet(last.arg, "field").v
            operator == DictGet(last.arg, "operator").v
            allowed == IF field \in {"position", "team"}
                       THEN {"=", "!=", "contains", "not_contains"}
                       ELSE IF field = "active_status" THEN {"=", "!="}
                       ELSE {"=", "!=", ">", "<", ">=", "<="}
        IN /\ Cardinality(FilterFields \ {"position", "team", "active_status"}) = 13
           /\ last.result.raised <=> operator \notin allowed
           /\ last.result.raised => DOMAIN last.result = {"raised"}
           /\ ~last.result.raised =>
                 last.result.filter = [field |-> field, operator |-> operator,
                                       value |-> DictGet(last.arg, "value")]

\* A string operator on a numeric field was rejected.
C11_Witness ==
    /\ last # Idle
    /\ last.op = "PlayerFilter"
    /\ DictGet(last.arg, "field").v = "playoff_goals"
    /\ DictGet(last.arg, "operator").v = "contains"
    /\ last.result.raised

\* The comparison a filter names, on the stored value of its field: string
\* comparison for position and team, boolean for active_status, numeric for
\* every other field.
C12_Satisfies(tms, row, f) ==
    IF f.field \in {"position", "team", "active_status"}
    THEN FilterMatches(tms, row, f)
    ELSE LET column == FilterColumn(tms, row, f.field)
             numeric_value == NumericValue(f.value)
         IN CASE f.operator = "=" -> column = numeric_value
              [] f.operator = "!=" -> column # numeric_value
              [] f.operator = ">" -> column > numeric_value
              [] f.operator = "<" -> column < numeric_value
              [] f.operator = ">=" -> column >= numeric_value
              [] f.operator = "<=" -> column <= numeric_value

\* C12: for every accepted filter, on any of the sixteen filter fields,
\* every row get_players_with_search returns satisfies the filter's
\* comparison on that field, and total_count counts only such rows.
C12_FilteredRowsSatisfy ==
    (QueryDone /\ ~last.result.raised) =>
        LET sp == last.arg
            satisfying ==
                {id \in DOMAIN players :
                    /\ SearchMatches(teams, players[id], sp)
                    /\ \A k \in 1..Len(sp.filters) :
                         C12_Satisfies(teams, players[id], sp.filters[k])}
        IN /\ \A i \in 1..Len(last.result.ids) : last.result.ids[i] \in satisfying
           /\ last.result.total_count = Cardinality(satisfying)

\* The rows get_players_with_search returns for the recorded query when it
\* carries the filter list fs, read from the first page at the largest limit.
RowsWith(fs) ==
    LET sp == [last.arg EXCEPT !.filters = fs, !.page = 1, !.limit = 100]
    IN UNION {{r.ids[i] : i \in 1..Len(r.ids)} :
                 r \in get_players_with_search(teams, players, sp)}

\* The list fs without its k-th filter.
Without(fs, k) == [i \in 1..(Len(fs) - 1) |-> IF i < k THEN fs[i] ELSE fs[i + 1]]

\* C13: the filters of a list combine conjunctively: the rows matched by a
\* list are the intersection of the rows matched by each filter alone, in
\* whatever order the filters are given; adding a filter never adds a row,
\* and the empty list leaves the result unrestricted.
C13_FiltersConjunctive ==
    (QueryDone /\ ~last.result.raised) =>
        LET fs == last.arg.filters
            n == Len(fs)
            together == {id \in RowsWith(<<>>) : \A k \in 1..n : id \in RowsWith(<<fs[k]>>)}
        IN /\ RowsWith(fs) = together
           /\ last.result.total_count = Cardinality(together)
           /\ \A i \in 1..Len(last.result.ids) : last.result.ids[i] \in together
           /\ \A p \in {q \in [1..n -> 1..n] : \A i, j \in 1..n : i # j => q[i] # q[j]} :
                 RowsWith([i \in 1..n |-> fs[p[i]]]) = together
           /\ \A k \in 1..n : together \subseteq RowsWith(Without(fs, k))
           /\ n = 0 => together = {id \in DOMAIN players :
                                     SearchMatches(teams, players[id], last.arg)}

\* Two filters were applied together, each alone matches a row the other
\* rejects, and a row matches both.
C13_Witness ==
    /\ QueryDone
    /\ ~last.result.raised
    /\ Len(last.arg.filters) = 2
    /\ last.result.total_count > 0
    /\ \A k \in 1..2 : RowsWith(<<last.arg.filters[k]>>) # RowsWith(last.arg.filters)

C15_PageIsSlice ==
    (QueryDone /\ ~last.result.raised) =>
        LET page == last.arg.page
            limit == last.arg.limit
            ids == last.result.ids
        IN /\ Len(ids) <= limit
           /\ \E o \in Orderings(teams, players, last.arg) :
                 /\ Len(o) = last.result.total_count
                 /\ \A pos \in 0..(Len(o) - 1) :
                       IF (page - 1) * limit <= pos /\ pos <= page * limit - 1
                       THEN /\ pos - (page - 1) * limit + 1 \in DOMAIN ids
                            /\ ids[pos - (page - 1) * limit + 1] = o[pos + 1]
                       ELSE \A i \in DOMAIN ids : ids[i] # o[pos + 1]
                 /\ \A i \in DOMAIN ids : (page - 1) * limit + i <= Len(o)
           /\ (page - 1) * limit >= last.result.total_count => ids = <<>>

\* A page past the last page of a query with matches was asked for.
C15_Witness ==
    /\ QueryDone
    /\ ~last.result.raised
    /\ last.arg.page = 3
    /\ last.arg.limit = 1
    /\ last.result.total_count = 2
    /\ last.result.ids = <<>>

\* The stored value of a sort field in a joined row.
StoredValue(row, sort_by) ==
    IF sort_by = "team" THEN TeamOf(teams, row).name ELSE row[sort_by]

\* a < b for two stored values of one column: texts in the store's binary
\* collation, numbers by size.
StoredLess(a, b, sort_by) ==
    IF sort_by \in {"name", "position", "team"} THEN StrLess(a, b) ELSE a < b

\* C16: sorting by active_status is inverted: ascending puts active rows
\* before inactive rows, descending puts inactive rows before active ones.
\* Every other sort field is not inverted: ascending returns rows in
\* ascending order of the stored value, descending in descending order.
C16_SortDirections ==
    (QueryDone /\ ~last.result.raised) =>
        LET sp == last.arg
            ids == last.result.ids
            row(i) == players[ids[i]]
        IN \A i, j \in DOMAIN ids :
              i < j =>
                 IF sp.sort_by = "active_status"
                 THEN IF sp.sort_order = "asc"
                      THEN ~(~row(i).active_status /\ row(j).active_status)
                      ELSE ~(row(i).active_status /\ ~row(j).active_status)
                 ELSE IF sp.sort_order = "asc"
                      THEN ~StoredLess(StoredValue(row(j), sp.sort_by),
                                       StoredValue(row(i), sp.sort_by), sp.sort_by)
                      ELSE ~StoredLess(StoredValue(row(i), sp.sort_by),
                                       StoredValue(row(j), sp.sort_by), sp.sort_by)

\* An ascending sort by active_status returned an active row followed by an
\* inactive one.
C16_Witness ==
    /\ QueryDone
    /\ ~last.result.raised
    /\ last.arg.sort_by = "active_status"
    /\ last.arg.sort_order = "asc"
    /\ Len(last.result.ids) >= 2
    /\ players[last.result.ids[1]].active_status
    /\ ~players[last.result.ids[Len(last.result.ids)]].active_status

\* C17: _get_sort_column returns the mapped column for each of the
\* seventeen recognised sort names, the team name column for "team", and
\* the player name column for any other name, without raising.
C17_SortColumnMapping ==
    (last # Idle /\ last.op = "_get_sort_column") =>
        LET recognised ==
                {"name", "position", "team", "jersey_number", "active_status",
                 "regular_season_games_played", "regular_season_goals",
                 "regular_season_assists", "regular_season_points",
                 "playoff_games_played", "playoff_goals", "playoff_assists",
                 "playoff_points", "games_played", "goals", "assists", "points"}
        IN /\ Cardinality(recognised) = 17
           /\ last.arg = "team" => last.result = <<"teams", "name">>
           /\ last.arg \in recognised \ {"team"} => last.result = <<"players", last.arg>>
           /\ last.arg \notin recognised => last.result = <<"players", "name">>

\* The column of the sort name "team" was asked for.
C17_Witness ==
    /\ last # Idle
    /\ last.op = "_get_sort_column"
    /\ last.arg = "team"
    /\ last.result = <<"teams", "name">>

\* A search text that is absent, empty or made of whitespace only.
BlankSearch(search) ==
    \/ search = None
    \/ \A i \in 1..Len(search.v) : Ch(search.v, i) \in {" ", "\t", "\n", "\r"}

\* C18: a search that is None, empty or only whitespace adds no predicate
\* to the query, whatever the search field: the rows and total_count equal
\* those of the same request without a search.
C18_BlankSearchUnrestricted ==
    (QueryDone /\ BlankSearch(last.arg.search)) =>
        LET unsearched ==
                get_players_with_search(teams, players, [last.arg EXCEPT !.search = None])
        IN /\ last.result \in unsearched
           /\ \A field \in SearchFields :
                 get_players_with_search(teams, players,
                                         [last.arg EXCEPT !.field = field]) = unsearched
           /\ ~last.result.raised =>
                 last.result.total_count =
                    Cardinality({id \in DOMAIN players :
                                   FiltersMatch(teams, players[id], last.arg.filters)})

\* A whitespace search on the jersey_number field returned rows.
C18_Witness ==
    /\ QueryDone
    /\ last.arg.search = PyStr("  ")
    /\ last.arg.field = "jersey_number"
    /\ ~last.result.raised
    /\ last.result.total_count > 0

\* C19: a jersey_number search whose trimmed text does not parse as an
\* integer returns zero rows with total_count 0 and does not raise; a text
\* that parses returns exactly the rows whose jersey number is that integer.
C19_JerseySearch ==
    (/\ QueryDone
     /\ last.arg.field = "jersey_number"
     /\ ~BlankSearch(last.arg.search)
     /\ last.arg.filters = <<>>) =>
        LET text == Strip(last.arg.search.v)
            wearing == {id \in DOMAIN players :
                          players[id].jersey_number = IntOfText(text)}
        IN /\ ~last.result.raised
           /\ IF IsIntText(text)
              THEN /\ RowsWith(<<>>) = wearing
                   /\ last.result.total_count = Cardinality(wearing)
              ELSE /\ last.result.ids = <<>>
                   /\ last.result.total_count = 0

\* A jersey_number search for a text that is not an integer was run on a
\* table with rows and returned none.
C19_Witness ==
    /\ QueryDone
    /\ last.arg.field = "jersey_number"
    /\ last.arg.search = PyStr("x9")
    /\ players # <<>>
    /\ ~last.result.raised
    /\ last.result.total_count = 0

\* needle occurs in text as a run of consecutive characters.
Substring(needle, text) ==
    \E i \in 1..(Len(text) - Len(needle) + 1) :
        SubSeq(text, i, i + Len(needle) - 1) = needle

\* C20: with a non-blank search and field "all", a row matches exactly
\* when the trimmed, lower-cased search text is a substring of its
\* lower-cased name, position, nationality or team name, or of the decimal
\* text of its jersey number.
C20_SearchAllIsSubstring ==
    (/\ QueryDone
     /\ last.arg.field = "all"
     /\ ~BlankSearch(last.arg.search)
     /\ last.arg.filters = <<>>) =>
        LET needle == Lower(Strip(last.arg.search.v))
            containing ==
                {id \in DOMAIN players :
                    \/ Substring(needle, Lower(players[id].name))
                    \/ Substring(needle, Lower(players[id].position))
                    \/ Substring(needle, Lower(players[id].nationality))
                    \/ Substring(needle, Lower(TeamOf(teams, players[id]).name))
                    \/ Substring(needle, ToString(players[id].jersey_number))}
        IN /\ ~last.result.raised
           /\ RowsWith(<<>>) = containing
           /\ last.result.total_count = Cardinality(containing)

(***************************************************************************)
(* Further properties of the service.                                      *)
(***************************************************************************)
\* The filters parameter of a GET /players request does not yield a
\* compiled filter list: it is no JSON, or no array of valid filter
\* objects, or a filter's value cannot be used for its field.
UnusableFilters(query) ==
    LET parsed == ParseFilters(Bind(query).filters) IN
    \/ parsed.status # 200
    \/ \E i \in 1..Len(parsed.filters) : FilterRaises(parsed.filters[i])

\* C21: every GET /players request whose filters cannot be parsed,
\* validated or compiled is answered with 400, and no cache lookup, cache
\* write or store query is performed for it.
C21_BadFiltersRejectedEarly ==
    (last.op = "get_players" /\ UnusableFilters(last.arg)) =>
        /\ last.status = 400
        /\ last.key = ""
        /\ ~last.stored
        /\ last.db_queries = 0

(***************************************************************************)
(* The write functions of crud/player.py applied to a players table; the   *)
(* record of a call names the function, the player id and whether the row  *)
(* was found.                                                              *)
(***************************************************************************)
\* Request bodies whose six component statistics are each 0 or MaxStat.
StatBodies ==
    {[PlayerBody(1, rs_goals, TRUE) EXCEPT
         !.regular_season_assists = rs_assists,
         !.regular_season_games_played = rs_games,
         !.playoff_goals = po_goals,
         !.playoff_assists = po_assists,
         !.playoff_games_played = po_games] :
        rs_goals \in {0, MaxStat}, rs_assists \in {0, MaxStat}, rs_games \in {0, MaxStat},
        po_goals \in {0, MaxStat}, po_assists \in {0, MaxStat}, po_games \in {0, MaxStat}}

InitStats ==
    /\ teams = [i \in {1} |-> TeamRow(i)]
    /\ players = <<>>
    /\ redis = EmptyRedis
    /\ redis_up = TRUE
    /\ last = Idle
    /\ keyA = NoKeyCall
    /\ keyB = NoKeyCall
    /\ written = <<>>
    /\ inflight = <<>>
    /\ redis_client = <<>>

UnusedByStats == UNCHANGED <<teams, redis, redis_up, keyA, keyB, written, inflight, redis_client>>

\* create_player(db, player_data)
CreateRow ==
    /\ NewId(players) <= MaxPlayers
    /\ \E player_data \in StatBodies :
         LET new_player == PlayerRow(NewId(players), player_data) IN
         /\ players' = WithRow(players, new_player.id, new_player)
         /\ last' = Applied("create_player", new_player.id, TRUE)
    /\ UnusedByStats

\* update_player(db, player_id, player_data)
UpdateRow ==
    /\ \E player_id \in 1..(MaxPlayers + 1), player_data \in StatBodies :
         IF player_id \in DOMAIN players
         THEN LET player == PlayerRow(player_id, player_data) IN
              /\ players' = WithRow(players, player_id, player)
              /\ last' = Applied("update_player", player_id, TRUE)
         ELSE /\ UNCHANGED players
              /\ last' = Applied("update_player", player_id, FALSE)
    /\ UnusedByStats

\* delete_player(db, player_id)
DeleteRow ==
    /\ \E player_id \in 1..(MaxPlayers + 1) :
         IF player_id \in DOMAIN players
         THEN /\ players' = WithoutRow(players, player_id)
              /\ last' = Applied("delete_player", player_id, TRUE)
         ELSE /\ UNCHANGED players
              /\ last' = Applied("delete_player", player_id, FALSE)
    /\ UnusedByStats

NextStats ==
    \/ CreateRow
    \/ UpdateRow
    \/ DeleteRow

SpecStats == InitStats /\ [][NextStats]_vars

\* C22: after any sequence of create_player and update_player calls every
\* player they wrote has each derived statistic equal to the sum of its
\* components.
C22_DerivedStatistics ==
    \A id \in DOMAIN players :
        LET p == players[id] IN
        /\ p.regular_season_points = p.regular_season_goals + p.regular_season_assists
        /\ p.playoff_points = p.playoff_goals + p.playoff_assists
        /\ p.games_played = p.regular_season_games_played + p.playoff_games_played
        /\ p.goals = p.regular_season_goals + p.playoff_goals
        /\ p.assists = p.regular_season_assists + p.playoff_assists
        /\ p.points = p.goals + p.assists

\* An update wrote a row all of whose component statistics are positive.
C22_Witness ==
    /\ last # Idle
    /\ last.op = "update_player"
    /\ last.result
    /\ LET p == players[last.arg] IN
       /\ p.regular_season_goals > 0 /\ p.regular_season_assists > 0
       /\ p.playoff_goals > 0 /\ p.playoff_assists > 0
       /\ p.regular_season_games_played > 0 /\ p.playoff_games_played > 0

(***************************************************************************)
(* One GET /players/{id} and one PUT or DELETE /players/{id} running       *)
(* concurrently.  The handlers are coroutines: another request may run     *)
(* wherever a handler awaits CacheService, so each handler is split at     *)
(* its awaits.  inflight.reader and inflight.writer hold each handler's    *)
(* position and locals.                                                    *)
(***************************************************************************)
Reader(pc, player_id, response) == [pc |-> pc, player_id |-> player_id, response |-> response]

Writer(pc, player_id) == [pc |-> pc, player_id |-> player_id]

InitRace ==
    /\ teams = [i \in {1} |-> TeamRow(i)]
    /\ players = [i \in 1..MaxPlayers |-> PlayerRow(i, PlayerBody(1, 0, TRUE))]
    /\ redis = EmptyRedis
    /\ redis_up = TRUE
    /\ last = Idle
    /\ keyA = NoKeyCall
    /\ keyB = NoKeyCall
    /\ written = <<>>
    /\ inflight = [reader |-> Reader("idle", 0, None), writer |-> Writer("idle", 0)]
    /\ redis_client = <<>>

UnusedByRace == UNCHANGED <<teams, redis_up, last, keyA, keyB, written, redis_client>>

\* get_player, line 464: await CacheService.get("players:detail", str(player_id))
LookupPlayer ==
    /\ inflight.reader.pc = "idle"
    /\ \E player_id \in PathIds :
         LET cached_player == CacheGet(redis, redis_up, "players:detail",
                                       ToString(player_id)).value
         IN inflight' = [inflight EXCEPT !.reader =
                            IF Truthy(cached_player)
                            THEN Reader("done", player_id, cached_player)
                            ELSE Reader("missed", player_id, None)]
    /\ UNCHANGED <<players, redis>>
    /\ UnusedByRace

\* get_player, lines 470-474: the store is read and the response formatted.
FetchPlayer ==
    /\ inflight.reader.pc = "missed"
    /\ LET player_id == inflight.reader.player_id IN
       inflight' = [inflight EXCEPT !.reader =
                       IF player_id \in DOMAIN players
                       THEN Reader("fetched", player_id,
                                   format_player_response(teams, players[player_id]))
                       ELSE Reader("done", player_id, None)]
    /\ UNCHANGED <<players, redis>>
    /\ UnusedByRace

\* get_player, line 477: await CacheService.set("players:detail", ...)
StorePlayerResponse ==
    /\ inflight.reader.pc = "fetched"
    /\ redis' = CacheSet(redis, redis_up, "players:detail",
                         ToString(inflight.reader.player_id),
                         inflight.reader.response, None).redis
    /\ inflight' = [inflight EXCEPT !.reader.pc = "done"]
    /\ UNCHANGED players
    /\ UnusedByRace

\* get_player returns (or raises 404).
ReturnPlayer ==
    /\ inflight.reader.pc = "done"
    /\ inflight' = [inflight EXCEPT !.reader = Reader("idle", 0, None)]
    /\ UNCHANGED <<players, redis>>
    /\ UnusedByRace

\* update_existing_player, lines 496-506: team check and update_player commit.
CommitUpdate ==
    /\ inflight.writer.pc = "idle"
    /\ \E player_id \in PathIds, player_data \in PlayerBodies :
         IF player_data.team_id \in DOMAIN teams /\ player_id \in DOMAIN players
         THEN /\ players' = WithRow(players, player_id, PlayerRow(player_id, player_data))
              /\ inflight' = [inflight EXCEPT !.writer = Writer("committed", player_id)]
         ELSE /\ UNCHANGED players
              /\ inflight' = [inflight EXCEPT !.writer = Writer("done", player_id)]
    /\ UNCHANGED redis
    /\ UnusedByRace

\* delete_existing_player, lines 524-526: delete_player commit.
CommitDelete ==
    /\ inflight.writer.pc = "idle"
    /\ \E player_id \in PathIds :
         IF player_id \in DOMAIN players
         THEN /\ players' = WithoutRow(players, player_id)
              /\ inflight' = [inflight EXCEPT !.writer = Writer("committed", player_id)]
         ELSE /\ UNCHANGED players
              /\ inflight' = [inflight EXCEPT !.writer = Writer("done", player_id)]
    /\ UNCHANGED redis
    /\ UnusedByRace

\* lines 509 and 529: await CacheService.invalidate_player(player_id)
InvalidateWritten ==
    /\ inflight.writer.pc = "committed"
    /\ redis' = invalidate_player(redis, redis_up, inflight.writer.player_id).redis
    /\ inflight' = [inflight EXCEPT !.writer.pc = "done"]
    /\ UNCHANGED players
    /\ UnusedByRace

\* The write handler returns (or raises 404).
ReturnWrite ==
    /\ inflight.writer.pc = "done"
    /\ inflight' = [inflight EXCEPT !.writer = Writer("idle", 0)]
    /\ UNCHANGED <<players, redis>>
    /\ UnusedByRace

\* A key's TTL runs out.
ExpireDetail ==
    /\ \E k \in DOMAIN redis : redis' = WithoutKeys(redis, {k})
    /\ UNCHANGED <<players, inflight>>
    /\ UnusedByRace

NextRace ==
    \/ LookupPlayer
    \/ FetchPlayer
    \/ StorePlayerResponse
    \/ ReturnPlayer
    \/ CommitUpdate
    \/ CommitDelete
    \/ InvalidateWritten
    \/ ReturnWrite
    \/ ExpireDetail

SpecRace == InitRace /\ [][NextRace]_vars

\* Both requests have finished.
Quiet == inflight.reader.pc = "idle" /\ inflight.writer.pc = "idle"

\* The cache holds a detail entry for the player that is not the response
\* the store gives now.
Stale(player_id) ==
    /\ DetailKey(player_id) \in DOMAIN redis
    /\ \/ player_id \notin DOMAIN players
       \/ json_loads(redis[DetailKey(player_id)])
             # format_player_response(teams, players[player_id])

\* C23: the race is reachable (C23_Witness): a GET /players/{id} that read
\* the store before a concurrent PUT or DELETE committed can store its
\* response after the write's invalidation, so that with both requests
\* finished the cache holds a stale detail entry; and every later read
\* returns that entry without asking the store, while it is in the cache.
C23_StaleEntryIsServed ==
    \A player_id \in PathIds :
        (Quiet /\ Stale(player_id)) =>
            get_player(player_id, teams, players, redis, redis_up)
               = {Outcome(200, json_loads(redis[DetailKey(player_id)]), 0, redis,
                          players, DetailKey(player_id), FALSE)}

\* Both requests have finished and the cache holds a detail entry for a
\* player the store holds with other values.
C23_Witness ==
    /\ Quiet
    /\ \E player_id \in DOMAIN players : Stale(player_id)

\* C24: a write answered with 404 (POST or PUT naming a team that does not
\* exist, PUT or DELETE naming a player that does not exist) leaves the
\* store (players and teams) and the cache exactly as they were.
C24_RejectedWriteChangesNothing ==
    [][(last = Idle /\ last'.op \in WriteOps /\ last'.status = 404) =>
          (players' = players /\ teams' = teams /\ redis' = redis)]_vars

\* A PUT was answered with 404 while the store held a player and the cache
\* held entries.
C24_Witness ==
    /\ last.op = "update_existing_player"
    /\ last.status = 404
    /\ players # <<>>
    /\ redis # EmptyRedis

ResponseBuilt == last # Idle /\ last.op = "get_players"

\* C25: in every GET /players response computed from the store, count is
\* the number of players returned and at most limit, and total_pages is 0
\* when total is 0 and otherwise the smallest n with n * limit >= total.
C25_CountAndTotalPages ==
    ResponseBuilt =>
        LET count == DictGet(last.result, "count").v
            total == DictGet(last.result, "total").v
            limit == DictGet(last.result, "limit").v
            total_pages == DictGet(last.result, "total_pages").v
        IN /\ count = Len(DictGet(last.result, "players").v)
           /\ limit = last.arg.limit
           /\ count <= limit
           /\ total = 0 => total_pages = 0
           /\ total > 0 =>
                 /\ total_pages * limit >= total
                 /\ \A n \in 0..(total_pages - 1) : n * limit < total

\* The last page of a listing whose total is no multiple of the limit.
C25_Witness ==
    /\ ResponseBuilt
    /\ DictGet(last.result, "total").v = 3
    /\ DictGet(last.result, "limit").v = 2
    /\ DictGet(last.result, "page").v = 2
    /\ DictGet(last.result, "count").v = 1
    /\ DictGet(last.result, "total_pages").v = 2

(***************************************************************************)
(* RedisClient (redis_client.py).  redis_client holds the class attributes *)
(* _pool, _client and _is_available, the number of objects made so far     *)
(* (an object is its kind and its number), and, since the last time close  *)
(* reset the attributes: the pools created, the clients get_client         *)
(* returned, and whether a call found the client already there.            *)
(* get_client has no await in its body and runs in one step; close awaits  *)
(* the client's close and the pool's disconnect, and other coroutines,     *)
(* further close calls included, run at those awaits.  inflight holds the  *)
(* position of each close call.                                            *)
(***************************************************************************)
Object(kind, n) == [t |-> kind, id |-> n]

Closers == {1, 2}

\* A get_client that builds a pool and a client on every call.
get_client_fresh(cls) ==
    IF cls._is_available = PyBool(FALSE)
    THEN [raised |-> TRUE, client |-> None, cls |-> cls]
    ELSE [raised |-> FALSE, client |-> Object("client", cls.made + 1),
          cls |-> [cls EXCEPT !._pool = Object("pool", cls.made + 1),
                              !._client = Object("client", cls.made + 1),
                              !.made = @ + 1, !.pools = @ + 1]]

\* RedisClient.get_client
get_client(cls) ==
    IF cls._is_available = PyBool(FALSE)
    THEN [raised |-> TRUE, client |-> None, cls |-> cls]
    ELSE IF cls._client = None
         THEN [raised |-> FALSE, client |-> Object("client", cls.made + 1),
               cls |-> [cls EXCEPT !._pool = Object("pool", cls.made + 1),
                                   !._client = Object("client", cls.made + 1),
                                   !.made = @ + 1, !.pools = @ + 1]]
         ELSE [raised |-> FALSE, client |-> cls._client,
               cls |-> [cls EXCEPT !.found = TRUE]]

\* A reset that forgets the client and keeps the pool.
ResetClientOnly(cls) ==
    [cls EXCEPT !._client = None, !.pools = 0, !.returned = {}, !.found = FALSE]

\* RedisClient.close, lines 136-137.
Reset(cls) ==
    [cls EXCEPT !._client = None, !._pool = None,
                !.pools = 0, !.returned = {}, !.found = FALSE]

InitClient ==
    /\ teams = <<>>
    /\ players = <<>>
    /\ redis = EmptyRedis
    /\ redis_up = TRUE
    /\ last = Idle
    /\ keyA = NoKeyCall
    /\ keyB = NoKeyCall
    /\ written = <<>>
    /\ inflight = [i \in Closers |-> "idle"]
    /\ \E checked \in {None, PyBool(TRUE), PyBool(FALSE)} :
         redis_client = [_pool |-> None, _client |-> None, _is_available |-> checked,
                         made |-> 0, pools |-> 0, returned |-> {}, found |-> FALSE]

UnusedByClient == UNCHANGED <<teams, players, redis, redis_up, last, keyA, keyB, written>>

\* A coroutine awaits RedisClient.get_client().
GetClient ==
    /\ redis_client.made < MaxPools \/ redis_client._client # None
    /\ LET call == get_client(redis_client) IN
       redis_client' = IF call.raised THEN call.cls
                       ELSE [call.cls EXCEPT !.returned = @ \cup {call.client}]
    /\ UNCHANGED inflight
    /\ UnusedByClient

\* close, lines 128-129: up to the first await that is reached.
CloseBegin ==
    /\ \E i \in Closers :
         /\ inflight[i] = "idle"
         /\ IF Truthy(redis_client._client)
            THEN /\ inflight' = [inflight EXCEPT ![i] = "client.close"]
                 /\ UNCHANGED redis_client
            ELSE IF Truthy(redis_client._pool)
                 THEN /\ inflight' = [inflight EXCEPT ![i] = "pool.disconnect"]
                      /\ UNCHANGED redis_client
                 ELSE /\ redis_client' = Reset(redis_client)
                      /\ UNCHANGED inflight
    /\ UnusedByClient

\* close, lines 130-133: the client is closed; on to the pool.
CloseClientDone ==
    /\ \E i \in Closers :
         /\ inflight[i] = "client.close"
         /\ IF Truthy(redis_client._pool)
            THEN /\ inflight' = [inflight EXCEPT ![i] = "pool.disconnect"]
                 /\ UNCHANGED redis_client
            ELSE /\ redis_client' = Reset(redis_client)
                 /\ inflight' = [inflight EXCEPT ![i] = "idle"]
    /\ UnusedByClient

\* close, lines 134-137: the pool is disconnected; both attributes are reset.
ClosePoolDone ==
    /\ \E i \in Closers :
         /\ inflight[i] = "pool.disconnect"
         /\ redis_client' = Reset(redis_client)
         /\ inflight' = [inflight EXCEPT ![i] = "idle"]
    /\ UnusedByClient

NextClient ==
    \/ GetClient
    \/ CloseBegin
    \/ CloseClientDone
    \/ ClosePoolDone

SpecClient == InitClient /\ [][NextClient]_vars

\* C26: between one reset by RedisClient.close and the next, all calls of
\* get_client, those of concurrently running coroutines included, return
\* the same client object and create at most one connection pool; and in
\* every state _client is None exactly when _pool is None.
C26_OneClientOnePool ==
    /\ Cardinality(redis_client.returned) <= 1
    /\ redis_client.returned \subseteq {redis_client._client}
    /\ redis_client.pools <= 1
    /\ (redis_client._client = None) <=> (redis_client._pool = None)

\* After an earlier close, get_client made a second client and a later call
\* returned it again while another close was under way.
C26_Witness ==
    /\ redis_client.made >= 2
    /\ redis_client.found
    /\ redis_client.returned = {redis_client._client}
    /\ \E i \in Closers : inflight[i] # "idle"

\* C27: CacheService.delete_pattern(p), with Redis answering and no other
\* cache operation running, removes exactly the keys that match p, returns
\* the number of keys removed (0 when none match) and leaves every other
\* key with its value.
C27_DeletePatternFrame ==
    [][(last'.op = "delete_pattern" /\ last'.cache_ok) =>
          /\ DOMAIN redis' = {k \in DOMAIN redis : ~GlobMatch(k, last'.arg)}
          /\ \A k \in DOMAIN redis' : redis'[k] = redis[k]
          /\ last'.result = Cardinality({k \in DOMAIN redis : GlobMatch(k, last'.arg)})
          /\ last'.result = Cardinality(DOMAIN redis) - Cardinality(DOMAIN redis')]_vars

\* delete_pattern removed keys and left others in the cache.
C27_Witness ==
    /\ last.op = "delete_pattern" /\ last.cache_ok
    /\ last.result >= 1
    /\ last.result = Cardinality(DOMAIN last.evicted)
    /\ redis # EmptyRedis

\* C28: for each read endpoint (GET /players, GET /players/{id}, GET
\* /teams), whenever the cache holds an entry under the request's key when
\* the handler looks it up, the handler returns that entry's value and asks
\* the store nothing, whatever the value is (an empty team list included).
C28_HitServedFromCache ==
    [][(last = Idle /\ last'.op \in ReadOps /\ last'.cache_ok
          /\ last'.key \in DOMAIN redis) =>
          /\ last'.status = 200
          /\ last'.db_queries = 0
          /\ last'.body = json_loads(redis[last'.key])]_vars

(***************************************************************************)
(* One GET /players running concurrently with POST /players and DELETE     *)
(* /players/{id}.  The list handler awaits CacheService.get and            *)
(* CacheService.set; get_players_with_search, with its count and its page  *)
(* query, and the building of the response run between the two with no     *)
(* await, so no other request runs in between.  inflight.reader holds the  *)
(* list request's position, its query, its response and whether a write    *)
(* committed while it was in flight.                                       *)
(***************************************************************************)
ListReader(pc, query, response, raced) == [pc |-> pc, query |-> query, response |-> response, raced |-> raced]

ListRequests ==
    {<< <<"page", page>>, <<"limit", "1">> >> : page \in {"1", "2"}}

InitList ==
    /\ teams = [i \in {1} |-> TeamRow(i)]
    /\ players = <<>>
    /\ redis = EmptyRedis
    /\ redis_up = TRUE
    /\ last = Idle
    /\ keyA = NoKeyCall
    /\ keyB = NoKeyCall
    /\ written = <<>>
    /\ inflight = [reader |-> ListReader("idle", <<>>, None, FALSE),
                   writer |-> Writer("idle", 0)]
    /\ redis_client = <<>>

UnusedByList == UNCHANGED <<teams, redis_up, last, keyA, keyB, written, redis_client>>

\* get_players, lines 183-225: the filters parsed, the key made, the cache asked.
ListLookup ==
    /\ inflight.reader.pc = "idle"
    /\ \E query \in ListRequests :
         LET cached_response == CacheGet(redis, redis_up, "players",
                                         ListCacheKey(Bind(query))).value
         IN inflight' = [inflight EXCEPT !.reader =
                            IF Truthy(cached_response)
                            THEN ListReader("done", query, cached_response, FALSE)
                            ELSE ListReader("missed", query, None, FALSE)]
    /\ UNCHANGED <<players, redis>>
    /\ UnusedByList

\* get_players, lines 229-250: get_players_with_search and the response.
ListCompute ==
    /\ inflight.reader.pc = "missed"
    /\ LET b == Bind(inflight.reader.query)
           filters == ParseFilters(b.filters).filters
       IN \E res \in get_players_with_search(teams, players, SearchParams(b, filters)) :
            inflight' = [inflight EXCEPT
                            !.reader.pc = "computed",
                            !.reader.response = ListResponse(teams, players, b, filters, res)]
    /\ UNCHANGED <<players, redis>>
    /\ UnusedByList

\* get_players, line 253: await CacheService.set("players", cache_key, response)
ListStore ==
    /\ inflight.reader.pc = "computed"
    /\ redis' = CacheSet(redis, redis_up, "players",
                         ListCacheKey(Bind(inflight.reader.query)),
                         inflight.reader.response, None).redis
    /\ inflight' = [inflight EXCEPT !.reader.pc = "done"]
    /\ UNCHANGED players
    /\ UnusedByList

\* get_players returns its response.
ListReturn ==
    /\ inflight.reader.pc = "done"
    /\ inflight' = [inflight EXCEPT !.reader = ListReader("idle", <<>>, None, FALSE)]
    /\ UNCHANGED <<players, redis>>
    /\ UnusedByList

\* create_new_player, lines 437-445: team check and create_player commit.
CommitCreate ==
    /\ inflight.writer.pc = "idle"
    /\ NewId(players) <= MaxPlayers
    /\ \E player_data \in PlayerBodies :
         IF player_data.team_id \in DOMAIN teams
         THEN /\ players' = WithRow(players, NewId(players),
                                    PlayerRow(NewId(players), player_data))
              /\ inflight' = [inflight EXCEPT
                                 !.writer = Writer("created", NewId(players)),
                                 !.reader.raced = (inflight.reader.pc # "idle")]
         ELSE /\ UNCHANGED players
              /\ inflight' = [inflight EXCEPT !.writer = Writer("done", 0)]
    /\ UNCHANGED redis
    /\ UnusedByList

\* delete_existing_player, lines 524-526: delete_player commit.
CommitRemove ==
    /\ inflight.writer.pc = "idle"
    /\ \E player_id \in PathIds :
         IF player_id \in DOMAIN players
         THEN /\ players' = WithoutRow(players, player_id)
              /\ inflight' = [inflight EXCEPT
                                 !.writer = Writer("deleted", player_id),
                                 !.reader.raced = (inflight.reader.pc # "idle")]
         ELSE /\ UNCHANGED players
              /\ inflight' = [inflight EXCEPT !.writer = Writer("done", player_id)]
    /\ UNCHANGED redis
    /\ UnusedByList

\* lines 448 and 529: await CacheService.invalidate_players() after a
\* create, invalidate_player(player_id) after a delete.
InvalidateListings ==
    /\ inflight.writer.pc \in {"created", "deleted"}
    /\ redis' = IF inflight.writer.pc = "created"
                THEN invalidate_players(redis, redis_up).redis
                ELSE invalidate_player(redis, redis_up, inflight.writer.player_id).redis
    /\ inflight' = [inflight EXCEPT !.writer.pc = "done"]
    /\ UNCHANGED players
    /\ UnusedByList

NextList ==
    \/ ListLookup
    \/ ListCompute
    \/ ListStore
    \/ ListReturn
    \/ CommitCreate
    \/ CommitRemove
    \/ InvalidateListings
    \/ ReturnWrite

SpecList == InitList /\ [][NextList]_vars

\* The list request holds a response it computed from the store.
ListComputed == inflight.reader.pc = "computed"

\* As first stated: every GET /players response computed from the store
\* has count <= total and (page - 1) * limit + count <= total.
C29_PageWithinTotal ==
    ListComputed =>
        LET r == inflight.reader.response IN
        /\ DictGet(r, "count").v <= DictGet(r, "total").v
        /\ (DictGet(r, "page").v - 1) * DictGet(r, "limit").v + DictGet(r, "count").v
              <= DictGet(r, "total").v

\* C29: every GET /players response computed from the store describes one
\* state of the store, also when writes of other requests run concurrently:
\* count <= total, and a response with players has
\* (page - 1) * limit + count <= total; a page beyond the last has count 0
\* and the total of the rows there are.
C29_ConsistentSnapshot ==
    ListComputed =>
        LET r == inflight.reader.response
            count == DictGet(r, "count").v
            total == DictGet(r, "total").v
            page == DictGet(r, "page").v
            limit == DictGet(r, "limit").v
        IN /\ count <= total
           /\ count > 0 => (page - 1) * limit + count <= total
           /\ count = 0 => total <= (page - 1) * limit

\* A list request computed a page with players after a write committed
\* while it was in flight.
C29_Witness ==
    /\ ListComputed
    /\ inflight.reader.raced
    /\ DictGet(inflight.reader.response, "count").v > 0

\* C30: for every search text and every single search field (name,
\* position, team, nationality, jersey_number), each row the single-field
\* search returns is also returned by the search with field "all" and the
\* same text.
C30_SingleFieldWithinAll ==
    (QueryDone /\ ~last.result.raised /\ last.arg.field # "all") =>
        \A res \in get_players_with_search(teams, players,
                      [last.arg EXCEPT !.field = "all", !.page = 1, !.limit = 100]) :
           {last.result.ids[i] : i \in 1..Len(last.result.ids)}
              \subseteq {res.ids[i] : i \in 1..Len(res.ids)}

====
